---- MODULE Spec2Model ----
(***************************************************************************)
(* PPR vaccination cost dashboard: the formula chain of calculations.py,   *)
(* the national Year-1/Year-2 loops and aggregates of streamlit_app.py,    *)
(* the PPR-free exclusion filters and the region roll-ups.                 *)
(*                                                                         *)
(* Numbers are exact rationals [n, d] in lowest terms with d > 0 (Python   *)
(* floats are modelled in exact arithmetic; IEEE rounding is not           *)
(* modelled).  Names (countries, species) are sequences of one-character   *)
(* strings so that lower(), replace(" ", "") and capitalize() are          *)
(* computed, not assumed.                                                  *)
(***************************************************************************)
EXTENDS Integers, Sequences, FiniteSets, TLC

VARIABLES
    national_df,     \* rows of the validated National.xlsx table
    config,          \* the sidebar values of the current run
    country_stats,   \* country -> Y1/Y2 accumulators (streamlit_app.py:221)
    totals,          \* the aggregate totals of streamlit_app.py:272-285
    view,            \* what the tab rendered last has computed
    call,            \* the last call of a formula: [fn, args, raised, result]
    subregions_df,   \* the table handed to subregions.render_tab
    session_state,   \* st.session_state: the shared config and the cost sliders
    audit_log        \* data_load.audit_log: the module-level list of entries

vars == <<national_df, config, country_stats, totals, view, call, subregions_df,
          session_state, audit_log>>

-----------------------------------------------------------------------------
(* Bounds of the model *)

MaxPop == 10
MaxRows == 2

-----------------------------------------------------------------------------
(* Exact rational arithmetic: the *, +, - and < of the Python expressions *)

Abs(x) == IF x < 0 THEN -x ELSE x

RECURSIVE GCD(_, _)
GCD(a, b) == IF b = 0 THEN a ELSE GCD(b, a % b)

Frac(n, d) ==
    LET g == GCD(Abs(n), d)
    IN  [n |-> n \div g, d |-> d \div g]

RInt(k) == [n |-> k, d |-> 1]

RMul(x, y) ==
    LET g1 == GCD(Abs(x.n), y.d)
        g2 == GCD(Abs(y.n), x.d)
    IN  [n |-> (x.n \div g1) * (y.n \div g2), d |-> (x.d \div g2) * (y.d \div g1)]

RAdd(x, y) ==
    IF x.n = 0 THEN y
    ELSE IF y.n = 0 THEN x
    ELSE IF x.d = 1 /\ y.d = 1 THEN [n |-> x.n + y.n, d |-> 1]
    ELSE LET g == GCD(x.d, y.d)
         IN  Frac(x.n * (y.d \div g) + y.n * (x.d \div g), (x.d \div g) * y.d)

RSub(x, y) == RAdd(x, [n |-> -y.n, d |-> y.d])

RLess(x, y) == x.n * y.d < y.n * x.d

Zero == RInt(0)
One == RInt(1)

-----------------------------------------------------------------------------
(* Names as character sequences *)

Goats == <<"G", "o", "a", "t", "s">>
Goat == <<"G", "o", "a", "t">>
Sheep == <<"S", "h", "e", "e", "p">>
Sheeps == <<"S", "h", "e", "e", "p", "s">>
Cattle == <<"C", "a", "t", "t", "l", "e">>
goatsLower == <<"g", "o", "a", "t", "s">>

-----------------------------------------------------------------------------
(* calculations.py *)

vaccinated_initial_mut(population, coverage) == population

vaccinated_initial(population, coverage) == RMul(population, coverage)

doses_required_mut(vaccinated, wastage) == RMul(vaccinated, RSub(One, wastage))

doses_required(vaccinated, wastage) == RMul(vaccinated, RAdd(One, wastage))

cost_before_adj(doses, cost_per_animal) == RMul(doses, cost_per_animal)

total_cost_mut(cost_base, political_mult, delivery_mult) ==
    RMul(cost_base, RAdd(political_mult, delivery_mult))

total_cost(cost_base, political_mult, delivery_mult) ==
    RMul(RMul(cost_base, political_mult), delivery_mult)

DefaultThresholds == <<Frac(4, 10), Frac(7, 10)>>
DefaultMultipliers == <<RInt(1), Frac(15, 10), RInt(2)>>

political_multiplier_mut(psi, thresholds, multipliers) ==
    IF ~RLess(thresholds[1], psi) THEN multipliers[1]
    ELSE IF RLess(psi, thresholds[2]) THEN multipliers[2]
    ELSE multipliers[3]

political_multiplier(psi, thresholds, multipliers) ==
    IF RLess(psi, thresholds[1]) THEN multipliers[1]
    ELSE IF RLess(psi, thresholds[2]) THEN multipliers[2]
    ELSE multipliers[3]

DefaultDeliveryMultipliers ==
    [ch \in {"Public", "Mixed", "Private"} |->
        CASE ch = "Public" -> Frac(12, 10)
          [] ch = "Mixed" -> RInt(1)
          [] ch = "Private" -> Frac(85, 100)]

\* dict.get(key, default)
DictGet(dict, key, default) == IF key \in DOMAIN dict THEN dict[key] ELSE default

delivery_channel_multiplier(channel, multipliers) == DictGet(multipliers, channel, One)

DefaultNewbornRates ==
    [s \in {Goats, Sheep} |-> IF s = Goats THEN Frac(6, 10) ELSE Frac(4, 10)]

newborns_mut(species, vaccinated, rates) ==
    RMul(vaccinated, DictGet(rates, species, rates[Sheep]))

newborns(species, vaccinated, rates) ==
    RMul(vaccinated, DictGet(rates, species, Frac(5, 10)))

second_year_coverage(newborn_count, coverage) == RMul(newborn_count, coverage)

-----------------------------------------------------------------------------
(* Python string methods on names *)

LowerAlpha == <<"a", "b", "c", "d", "e", "f", "g", "h", "i", "j", "k", "l", "m",
                "n", "o", "p", "q", "r", "s", "t", "u", "v", "w", "x", "y", "z">>
UpperAlpha == <<"A", "B", "C", "D", "E", "F", "G", "H", "I", "J", "K", "L", "M",
                "N", "O", "P", "Q", "R", "S", "T", "U", "V", "W", "X", "Y", "Z">>

LowerMap == [c \in {UpperAlpha[i] : i \in DOMAIN UpperAlpha} |->
                LowerAlpha[CHOOSE i \in DOMAIN UpperAlpha : UpperAlpha[i] = c]]
UpperMap == [c \in {LowerAlpha[i] : i \in DOMAIN LowerAlpha} |->
                UpperAlpha[CHOOSE i \in DOMAIN LowerAlpha : LowerAlpha[i] = c]]

LowerChar(c) == IF c \in DOMAIN LowerMap THEN LowerMap[c] ELSE c

UpperChar(c) == IF c \in DOMAIN UpperMap THEN UpperMap[c] ELSE c

\* s.lower()
str_lower(s) == [i \in 1..Len(s) |-> LowerChar(s[i])]

NotSpace(c) == c # " "

\* s.replace(" ", "")
str_strip_spaces(s) == SelectSeq(s, NotSpace)

\* s.capitalize()
str_capitalize(s) ==
    IF s = <<>> THEN s ELSE <<UpperChar(s[1])>> \o str_lower(Tail(s))

\* country.lower().replace(" ", "")
normalize_mut(name) == str_lower(name)

normalize(name) == str_strip_spaces(str_lower(name))

-----------------------------------------------------------------------------
(* Reference tables *)

country_region_map ==
    (<<"A", "l", "g", "e", "r", "i", "a">> :> "North Africa")
    @@ (<<"E", "g", "y", "p", "t">> :> "North Africa")
    @@ (<<"L", "i", "b", "y", "a">> :> "North Africa")
    @@ (<<"M", "o", "r", "o", "c", "c", "o">> :> "North Africa")
    @@ (<<"S", "u", "d", "a", "n">> :> "North Africa")
    @@ (<<"T", "u", "n", "i", "s", "i", "a">> :> "North Africa")
    @@ (<<"B", "e", "n", "i", "n">> :> "West Africa")
    @@ (<<"B", "u", "r", "k", "i", "n", "a", " ", "F", "a", "s", "o">> :> "West Africa")
    @@ (<<"C", "a", "p", "e", " ", "V", "e", "r", "d", "e">> :> "West Africa")
    @@ (<<"G", "a", "m", "b", "i", "a">> :> "West Africa")
    @@ (<<"G", "h", "a", "n", "a">> :> "West Africa")
    @@ (<<"G", "u", "i", "n", "e", "a">> :> "West Africa")
    @@ (<<"G", "u", "i", "n", "e", "a", "-", "B", "i", "s", "s", "a", "u">> :> "West Africa")
    @@ (<<"C", "ô", "t", "e", " ", "d", "'", "I", "v", "o", "i", "r", "e">> :> "West Africa")
    @@ (<<"L", "i", "b", "e", "r", "i", "a">> :> "West Africa")
    @@ (<<"M", "a", "l", "i">> :> "West Africa")
    @@ (<<"M", "a", "u", "r", "i", "t", "a", "n", "i", "a">> :> "West Africa")
    @@ (<<"N", "i", "g", "e", "r">> :> "West Africa")
    @@ (<<"N", "i", "g", "e", "r", "i", "a">> :> "West Africa")
    @@ (<<"S", "e", "n", "e", "g", "a", "l">> :> "West Africa")
    @@ (<<"S", "i", "e", "r", "r", "a", " ", "L", "e", "o", "n", "e">> :> "West Africa")
    @@ (<<"T", "o", "g", "o">> :> "West Africa")
    @@ (<<"B", "u", "r", "u", "n", "d", "i">> :> "East Africa")
    @@ (<<"C", "o", "m", "o", "r", "o", "s">> :> "East Africa")
    @@ (<<"D", "j", "i", "b", "o", "u", "t", "i">> :> "East Africa")
    @@ (<<"E", "r", "i", "t", "r", "e", "a">> :> "East Africa")
    @@ (<<"E", "t", "h", "i", "o", "p", "i", "a">> :> "East Africa")
    @@ (<<"K", "e", "n", "y", "a">> :> "East Africa")
    @@ (<<"M", "a", "d", "a", "g", "a", "s", "c", "a", "r">> :> "East Africa")
    @@ (<<"M", "a", "l", "a", "w", "i">> :> "East Africa")
    @@ (<<"M", "a", "u", "r", "i", "t", "i", "u", "s">> :> "East Africa")
    @@ (<<"M", "o", "z", "a", "m", "b", "i", "q", "u", "e">> :> "East Africa")
    @@ (<<"R", "w", "a", "n", "d", "a">> :> "East Africa")
    @@ (<<"S", "e", "y", "c", "h", "e", "l", "l", "e", "s">> :> "East Africa")
    @@ (<<"S", "o", "m", "a", "l", "i", "a">> :> "East Africa")
    @@ (<<"S", "o", "u", "t", "h", " ", "S", "u", "d", "a", "n">> :> "East Africa")
    @@ (<<"U", "n", "i", "t", "e", "d", " ", "R", "e", "p", "u", "b", "l", "i", "c", " ", "o", "f", " ", "T", "a", "n", "z", "a", "n", "i", "a">> :> "East Africa")
    @@ (<<"U", "g", "a", "n", "d", "a">> :> "East Africa")
    @@ (<<"A", "n", "g", "o", "l", "a">> :> "Central Africa")
    @@ (<<"C", "a", "m", "e", "r", "o", "o", "n">> :> "Central Africa")
    @@ (<<"C", "e", "n", "t", "r", "a", "l", " ", "A", "f", "r", "i", "c", "a", "n", " ", "R", "e", "p", "u", "b", "l", "i", "c">> :> "Central Africa")
    @@ (<<"C", "h", "a", "d">> :> "Central Africa")
    @@ (<<"C", "o", "n", "g", "o">> :> "Central Africa")
    @@ (<<"D", "e", "m", "o", "c", "r", "a", "t", "i", "c", " ", "R", "e", "p", "u", "b", "l", "i", "c", " ", "o", "f", " ", "t", "h", "e", " ", "C", "o", "n", "g", "o">> :> "Central Africa")
    @@ (<<"E", "q", "u", "a", "t", "o", "r", "i", "a", "l", " ", "G", "u", "i", "n", "e", "a">> :> "Central Africa")
    @@ (<<"G", "a", "b", "o", "n">> :> "Central Africa")
    @@ (<<"S", "a", "o", " ", "T", "o", "m", "e", " ", "a", "n", "d", " ", "P", "r", "i", "n", "c", "i", "p", "e">> :> "Central Africa")
    @@ (<<"B", "o", "t", "s", "w", "a", "n", "a">> :> "Southern Africa")
    @@ (<<"E", "s", "w", "a", "t", "i", "n", "i">> :> "Southern Africa")
    @@ (<<"L", "e", "s", "o", "t", "h", "o">> :> "Southern Africa")
    @@ (<<"N", "a", "m", "i", "b", "i", "a">> :> "Southern Africa")
    @@ (<<"S", "o", "u", "t", "h", " ", "A", "f", "r", "i", "c", "a">> :> "Southern Africa")
    @@ (<<"Z", "a", "m", "b", "i", "a">> :> "Southern Africa")
    @@ (<<"Z", "i", "m", "b", "a", "b", "w", "e">> :> "Southern Africa")
    @@ (<<"W", "e", "s", "t", "e", "r", "n", " ", "S", "a", "h", "a", "r", "a">> :> "North Africa")
    @@ (<<"R", "e", "u", "n", "i", "o", "n">> :> "Southern Africa")

ppr_free_countries_regions ==
    {<<"B", "o", "t", "s", "w", "a", "n", "a">>,
     <<"e", "S", "w", "a", "t", "i", "n", "i">>,
     <<"E", "s", "w", "a", "t", "i", "n", "i">>,
     <<"L", "e", "s", "o", "t", "h", "o">>,
     <<"M", "a", "d", "a", "g", "a", "s", "c", "a", "r">>,
     <<"M", "a", "u", "r", "i", "t", "i", "u", "s">>,
     <<"N", "a", "m", "i", "b", "i", "a">>,
     <<"S", "o", "u", "t", "h", " ", "A", "f", "r", "i", "c", "a">>,
     <<"K", "i", "n", "g", "d", "o", "m", " ", "o", "f", " ", "e", "S", "w", "a", "t", "i", "n", "i">>,
     <<"C", "a", "b", "o", " ", "V", "e", "r", "d", "e">>,
     <<"C", "a", "p", "e", " ", "V", "e", "r", "d", "e">>,
     <<"S", "a", "o", " ", "T", "o", "m", "e", " ", "a", "n", "d", " ", "P", "r", "i", "n", "c", "i", "p", "e">>,
     <<"M", "a", "l", "a", "w", "i">>,
     <<"M", "o", "z", "a", "m", "b", "i", "q", "u", "e">>,
     <<"Z", "a", "m", "b", "i", "a">>,
     <<"Z", "i", "m", "b", "a", "b", "w", "e">>}

ppr_free_countries_overview ==
    {<<"B", "o", "t", "s", "w", "a", "n", "a">>,
     <<"e", "S", "w", "a", "t", "i", "n", "i">>,
     <<"E", "s", "w", "a", "t", "i", "n", "i">>,
     <<"L", "e", "s", "o", "t", "h", "o">>,
     <<"M", "a", "d", "a", "g", "a", "s", "c", "a", "r">>,
     <<"M", "a", "u", "r", "i", "t", "i", "u", "s">>,
     <<"N", "a", "m", "i", "b", "i", "a">>,
     <<"S", "o", "u", "t", "h", " ", "A", "f", "r", "i", "c", "a">>,
     <<"K", "i", "n", "g", "d", "o", "m", " ", "o", "f", " ", "e", "S", "w", "a", "t", "i", "n", "i">>}


Regions == {"North Africa", "West Africa", "East Africa", "Central Africa", "Southern Africa"}

-----------------------------------------------------------------------------
(* streamlit_app.py: sidebar values and the lookups built from them *)

\* pd.notnull(x): a missing cell is the value with denominator 0 and numerator 0
NaN == [n |-> 0, d |-> 0]
notnull(x) == x # NaN

\* a cell holding text that is not a number
TextCell == [n |-> 1, d |-> 0]

\* a cell that holds a number (float(cell) succeeds and is not nan)
is_number(x) == x.d > 0

DefaultRegionalCost ==
    [r \in Regions |->
        CASE r = "North Africa" -> Frac(19, 100)
          [] r = "West Africa" -> Frac(19, 100)
          [] r = "East Africa" -> Frac(15, 100)
          [] r = "Central Africa" -> Frac(17, 100)
          [] r = "Southern Africa" -> Frac(23, 100)]

DefaultConfig ==
    [coverage |-> 80, newborn_goats |-> 60, newborn_sheep |-> 40,
     second_year_coverage_val |-> 100, wastage |-> 10,
     delivery_channel |-> "Mixed",
     del_mult_public |-> Frac(12, 10), del_mult_mixed |-> RInt(1),
     del_mult_private |-> Frac(85, 100),
     thresh_low |-> RInt(-1), thresh_high |-> RInt(0),
     mult_high_risk |-> RInt(2), mult_moderate_risk |-> Frac(15, 10),
     mult_low_risk |-> RInt(1),
     regional_custom_cost |-> DefaultRegionalCost]

region_of(country) == DictGet(country_region_map, country, "West Africa")

get_country_cost_mut(country, cfg) ==
    DictGet(cfg.regional_custom_cost,
            DictGet(country_region_map, country, "East Africa"), Frac(191, 1000))

get_country_cost(country, cfg) ==
    DictGet(cfg.regional_custom_cost, region_of(country), Frac(191, 1000))

delivery_mult_map(cfg) ==
    [ch \in {"Public", "Mixed", "Private"} |->
        CASE ch = "Public" -> cfg.del_mult_public
          [] ch = "Mixed" -> cfg.del_mult_mixed
          [] ch = "Private" -> cfg.del_mult_private]

delivery_mult(cfg) == DictGet(delivery_mult_map(cfg), cfg.delivery_channel, One)

get_political_mult(psi, cfg) ==
    IF RLess(psi, cfg.thresh_low) THEN cfg.mult_high_risk
    ELSE IF RLess(psi, cfg.thresh_high) THEN cfg.mult_moderate_risk
    ELSE cfg.mult_low_risk

-----------------------------------------------------------------------------
(* streamlit_app.py: the national Year-1 and Year-2 loops *)

ZeroYear == [Goat |-> Zero, Sheep |-> Zero, doses |-> Zero, cost |-> Zero, wasted |-> Zero]
ZeroStats == [Y1 |-> ZeroYear, Y2 |-> ZeroYear]
EmptyDict == [k \in {} |-> Zero]

row_pop(row) == IF notnull(row.Population) THEN row.Population ELSE Zero
row_psi(row) ==
    IF notnull(row.Political_Stability_Index) THEN row.Political_Stability_Index
    ELSE Frac(3, 10)

\* lines 224-235: the Year-1 figures of one row
EntityY1(row, cfg) ==
    LET vaccinated == vaccinated_initial(row_pop(row), Frac(cfg.coverage, 100))
        doses == doses_required(vaccinated, Frac(cfg.wastage, 100))
        cost_before_adj_val == cost_before_adj(doses, get_country_cost(row.Country, cfg))
        political_mult == get_political_mult(row_psi(row), cfg)
    IN  [vaccinated |-> vaccinated,
         doses |-> doses,
         cost |-> total_cost(cost_before_adj_val, political_mult, delivery_mult(cfg)),
         wasted |-> RSub(doses, vaccinated)]

\* line 253
national_newborn_rate(species, cfg) ==
    IF species \in {Goat, Goats} THEN Frac(cfg.newborn_goats, 100)
    ELSE Frac(cfg.newborn_sheep, 100)

\* lines 248-263: the Year-2 figures of one row
EntityY2(row, cfg) ==
    LET species == str_capitalize(row.Species)
        vaccinated == vaccinated_initial(row_pop(row), Frac(cfg.coverage, 100))
        newborn_count == RMul(vaccinated, national_newborn_rate(species, cfg))
        vaccinated_y2 ==
            second_year_coverage(newborn_count, Frac(cfg.second_year_coverage_val, 100))
        doses_y2 == doses_required(vaccinated_y2, Frac(cfg.wastage, 100))
        cost_before_adj_val == cost_before_adj(doses_y2, get_country_cost(row.Country, cfg))
        political_mult == get_political_mult(row_psi(row), cfg)
    IN  [vaccinated |-> vaccinated_y2,
         doses |-> doses_y2,
         cost |-> total_cost(cost_before_adj_val, political_mult, delivery_mult(cfg)),
         wasted |-> RSub(doses_y2, vaccinated_y2)]

\* lines 236-244 and 264-270: add one row's figures to its country's year
AddToYear_mut(y, species, e) ==
    [Goat |-> IF species \in {Goat, Goats} THEN e.vaccinated ELSE y.Goat,
     Sheep |-> IF species \notin {Goat, Goats} /\ species \in {Sheep, Sheeps}
               THEN e.vaccinated ELSE y.Sheep,
     doses |-> e.doses,
     cost |-> e.cost,
     wasted |-> e.wasted]

AddToYear(y, species, e) ==
    [Goat |-> IF species \in {Goat, Goats} THEN RAdd(y.Goat, e.vaccinated) ELSE y.Goat,
     Sheep |-> IF species \notin {Goat, Goats} /\ species \in {Sheep, Sheeps}
               THEN RAdd(y.Sheep, e.vaccinated) ELSE y.Sheep,
     doses |-> RAdd(y.doses, e.doses),
     cost |-> RAdd(y.cost, e.cost),
     wasted |-> RAdd(y.wasted, e.wasted)]

RECURSIVE Y1Loop(_, _, _)
Y1Loop(rows, cfg, stats) ==
    IF rows = <<>> THEN stats
    ELSE LET row == Head(rows)
             country == row.Country
             base == IF country \in DOMAIN stats THEN stats
                     ELSE stats @@ (country :> ZeroStats)
             y1 == AddToYear(base[country].Y1, str_capitalize(row.Species),
                             EntityY1(row, cfg))
         IN  Y1Loop(Tail(rows), cfg, [base EXCEPT ![country].Y1 = y1])

RECURSIVE Y2Loop(_, _, _)
Y2Loop(rows, cfg, stats) ==
    IF rows = <<>> THEN stats
    ELSE LET row == Head(rows)
             country == row.Country
             y2 == AddToYear(stats[country].Y2, str_capitalize(row.Species),
                             EntityY2(row, cfg))
         IN  Y2Loop(Tail(rows), cfg, [stats EXCEPT ![country].Y2 = y2])

compute_country_stats(rows, cfg) == Y2Loop(rows, cfg, Y1Loop(rows, cfg, EmptyDict))

\* sum(... for c in d)
RECURSIVE RSumOver(_, _)
RSumOver(f, S) ==
    IF S = {} THEN Zero
    ELSE LET k == CHOOSE k \in S : TRUE
         IN  RAdd(f[k], RSumOver(f, S \ {k}))

RSum(f) == RSumOver(f, DOMAIN f)

\* lines 272-285
aggregate_totals(stats) ==
    [total_animals_vaccinated_y1 |->
        RSum([c \in DOMAIN stats |-> RAdd(stats[c].Y1.Goat, stats[c].Y1.Sheep)]),
     total_doses_required_y1 |-> RSum([c \in DOMAIN stats |-> stats[c].Y1.doses]),
     total_cost_y1 |-> RSum([c \in DOMAIN stats |-> stats[c].Y1.cost]),
     total_vaccines_wasted_y1 |-> RSum([c \in DOMAIN stats |-> stats[c].Y1.wasted]),
     total_goats_y1 |-> RSum([c \in DOMAIN stats |-> stats[c].Y1.Goat]),
     total_sheep_y1 |-> RSum([c \in DOMAIN stats |-> stats[c].Y1.Sheep]),
     total_animals_vaccinated_y2 |->
        RSum([c \in DOMAIN stats |-> RAdd(stats[c].Y2.Goat, stats[c].Y2.Sheep)]),
     total_doses_required_y2 |-> RSum([c \in DOMAIN stats |-> stats[c].Y2.doses]),
     total_cost_y2 |-> RSum([c \in DOMAIN stats |-> stats[c].Y2.cost]),
     total_vaccines_wasted_y2 |-> RSum([c \in DOMAIN stats |-> stats[c].Y2.wasted]),
     total_goats_y2 |-> RSum([c \in DOMAIN stats |-> stats[c].Y2.Goat]),
     total_sheep_y2 |-> RSum([c \in DOMAIN stats |-> stats[c].Y2.Sheep])]

-----------------------------------------------------------------------------
(* Region roll-ups and exclusion filters *)

ZeroRegion ==
    [GoatsY1 |-> Zero, SheepY1 |-> Zero, TotalY1 |-> Zero, CostY1 |-> Zero,
     DosesY1 |-> Zero, WastedY1 |-> Zero,
     GoatsY2 |-> Zero, SheepY2 |-> Zero, TotalY2 |-> Zero, CostY2 |-> Zero,
     DosesY2 |-> Zero, WastedY2 |-> Zero]

AddCountryToRegion_mut(r, st) ==
    [GoatsY1 |-> RAdd(r.GoatsY1, st.Y1.Goat),
     SheepY1 |-> RAdd(r.SheepY1, st.Y1.Sheep),
     TotalY1 |-> RAdd(r.TotalY1, RAdd(st.Y1.Goat, st.Y1.Sheep)),
     CostY1 |-> st.Y1.cost,
     DosesY1 |-> RAdd(r.DosesY1, st.Y1.doses),
     WastedY1 |-> RAdd(r.WastedY1, st.Y1.wasted),
     GoatsY2 |-> RAdd(r.GoatsY2, st.Y2.Goat),
     SheepY2 |-> RAdd(r.SheepY2, st.Y2.Sheep),
     TotalY2 |-> RAdd(r.TotalY2, RAdd(st.Y2.Goat, st.Y2.Sheep)),
     CostY2 |-> st.Y2.cost,
     DosesY2 |-> RAdd(r.DosesY2, st.Y2.doses),
     WastedY2 |-> RAdd(r.WastedY2, st.Y2.wasted)]

\* streamlit_app.py lines 917-928, regions_countries.py lines 150-163
AddCountryToRegion(r, st) ==
    [GoatsY1 |-> RAdd(r.GoatsY1, st.Y1.Goat),
     SheepY1 |-> RAdd(r.SheepY1, st.Y1.Sheep),
     TotalY1 |-> RAdd(r.TotalY1, RAdd(st.Y1.Goat, st.Y1.Sheep)),
     CostY1 |-> RAdd(r.CostY1, st.Y1.cost),
     DosesY1 |-> RAdd(r.DosesY1, st.Y1.doses),
     WastedY1 |-> RAdd(r.WastedY1, st.Y1.wasted),
     GoatsY2 |-> RAdd(r.GoatsY2, st.Y2.Goat),
     SheepY2 |-> RAdd(r.SheepY2, st.Y2.Sheep),
     TotalY2 |-> RAdd(r.TotalY2, RAdd(st.Y2.Goat, st.Y2.Sheep)),
     CostY2 |-> RAdd(r.CostY2, st.Y2.cost),
     DosesY2 |-> RAdd(r.DosesY2, st.Y2.doses),
     WastedY2 |-> RAdd(r.WastedY2, st.Y2.wasted)]

\* streamlit_app.py lines 909-928: for country, stats in country_stats.items()
RECURSIVE app_region_loop(_, _, _)
app_region_loop(stats, keys, region_stats) ==
    IF keys = {} THEN region_stats
    ELSE LET country == CHOOSE c \in keys : TRUE
             region == region_of(country)
             base == IF region \in DOMAIN region_stats THEN region_stats
                     ELSE region_stats @@ (region :> ZeroRegion)
         IN  app_region_loop(stats, keys \ {country},
                 [base EXCEPT ![region] = AddCountryToRegion(base[region], stats[country])])

app_region_stats(stats) == app_region_loop(stats, DOMAIN stats, EmptyDict)

\* cost_data.country_region_map, imported by regions_countries.py and subregions.py
cost_data_country_region_map == country_region_map

cost_data_region_of(country) ==
    DictGet(cost_data_country_region_map, country, "West Africa")

\* regions_countries.py lines 27-33, continental_overview.py lines 49-57
\* (the normalized forms of the fixed set are computed once)
normalized_names(ppr_free_countries) == {normalize(ppr_free) : ppr_free \in ppr_free_countries}

ppr_free_norm_regions == normalized_names(ppr_free_countries_regions)
ppr_free_norm_overview == normalized_names(ppr_free_countries_overview)

is_ppr_free(country, ppr_free_norm) == normalize(country) \in ppr_free_norm

\* regions_countries.py lines 26-35: for country, stats in country_stats.items()
RECURSIVE filter_loop(_, _, _, _)
filter_loop(stats, keys, ppr_free_norm, acc) ==
    IF keys = {} THEN acc
    ELSE LET country == CHOOSE c \in keys : TRUE
             skip == is_ppr_free(country, ppr_free_norm)
         IN  filter_loop(stats, keys \ {country}, ppr_free_norm,
                 IF skip
                 THEN [acc EXCEPT !.excluded = @ \cup {country}]
                 ELSE [acc EXCEPT !.filtered_stats = @ @@ (country :> stats[country])])

filter_ppr_free_countries_mut(stats) ==
    [filtered_stats |-> stats, excluded |-> {}]

filter_ppr_free_countries(stats) ==
    filter_loop(stats, DOMAIN stats, ppr_free_norm_regions,
                [filtered_stats |-> EmptyDict, excluded |-> {}])

\* regions_countries.py lines 135-163
RECURSIVE rc_region_loop(_, _, _)
rc_region_loop(stats, keys, region_stats) ==
    IF keys = {} THEN region_stats
    ELSE LET country == CHOOSE c \in keys : TRUE
             region == cost_data_region_of(country)
             st == stats[country]
             base == IF region \in DOMAIN region_stats THEN region_stats
                     ELSE region_stats @@
                          (region :> [agg |-> ZeroRegion, TotalCampaignCost |-> Zero])
             r == base[region]
         IN  rc_region_loop(stats, keys \ {country},
                 [base EXCEPT ![region] =
                     [agg |-> AddCountryToRegion(r.agg, st),
                      TotalCampaignCost |->
                          RAdd(r.TotalCampaignCost, RAdd(st.Y1.cost, st.Y2.cost))]])

rc_region_stats(filtered_stats) ==
    rc_region_loop(filtered_stats, DOMAIN filtered_stats, EmptyDict)

\* continental_overview.py lines 41-60
overview_filter(stats) ==
    filter_loop(stats, DOMAIN stats, ppr_free_norm_overview,
                [filtered_stats |-> EmptyDict, excluded |-> {}])

\* continental_overview.py lines 85-103
overview_totals(f) ==
    LET total_goats_y1 == RSum([c \in DOMAIN f |-> f[c].Y1.Goat])
        total_sheep_y1 == RSum([c \in DOMAIN f |-> f[c].Y1.Sheep])
        total_goats_y2 == RSum([c \in DOMAIN f |-> f[c].Y2.Goat])
        total_sheep_y2 == RSum([c \in DOMAIN f |-> f[c].Y2.Sheep])
        total_cost_y1 == RSum([c \in DOMAIN f |-> f[c].Y1.cost])
        total_cost_y2 == RSum([c \in DOMAIN f |-> f[c].Y2.cost])
    IN  [total_goats_y1 |-> total_goats_y1,
         total_sheep_y1 |-> total_sheep_y1,
         total_animals_y1 |-> RAdd(total_goats_y1, total_sheep_y1),
         total_doses_y1 |-> RSum([c \in DOMAIN f |-> f[c].Y1.doses]),
         total_cost_y1 |-> total_cost_y1,
         total_wasted_y1 |-> RSum([c \in DOMAIN f |-> f[c].Y1.wasted]),
         total_goats_y2 |-> total_goats_y2,
         total_sheep_y2 |-> total_sheep_y2,
         total_animals_y2 |-> RAdd(total_goats_y2, total_sheep_y2),
         total_doses_y2 |-> RSum([c \in DOMAIN f |-> f[c].Y2.doses]),
         total_cost_y2 |-> total_cost_y2,
         total_wasted_y2 |-> RSum([c \in DOMAIN f |-> f[c].Y2.wasted]),
         total_campaign_cost |-> RAdd(total_cost_y1, total_cost_y2)]

-----------------------------------------------------------------------------
(* Inputs of the national pipeline *)

Kenya == <<"K", "e", "n", "y", "a">>
Mali == <<"M", "a", "l", "i">>
Eswatini == <<"E", "s", "w", "a", "t", "i", "n", "i">>
southafrica == <<"s", "o", "u", "t", "h", "a", "f", "r", "i", "c", "a">>
NewLesotho == <<"N", "e", "w", " ", "L", "e", "s", "o", "t", "h", "o">>
Malawi == <<"M", "a", "l", "a", "w", "i">>

CountryNames == {Kenya, Mali, Eswatini, southafrica, NewLesotho}

\* Political_Stability_Index is a country attribute in National.xlsx
PsiOf(country) ==
    CASE country = Kenya -> Frac(-15, 10)
      [] country = Mali -> Frac(-5, 10)
      [] country = Eswatini -> Frac(3, 10)
      [] country = southafrica -> NaN
      [] OTHER -> RInt(0)

\* one population figure per species keeps the rows of a table distinguishable
PopOf(species) ==
    CASE species = goatsLower -> RInt(1000)
      [] species = Sheep -> RInt(500)
      [] OTHER -> RInt(200)

NationalRows ==
    {[Country |-> c, Species |-> sp, Population |-> PopOf(sp),
      Political_Stability_Index |-> PsiOf(c)] :
        c \in CountryNames, sp \in {goatsLower, Sheep}}
    \cup {[Country |-> Kenya, Species |-> Cattle, Population |-> PopOf(Cattle),
           Political_Stability_Index |-> PsiOf(Kenya)],
          [Country |-> Malawi, Species |-> goatsLower, Population |-> PopOf(goatsLower),
           Political_Stability_Index |-> PsiOf(Malawi)]}

SeqsUpTo(S, n) == UNION {[1..k -> S] : k \in 0..n}

SidebarChoices ==
    {DefaultConfig,
     [DefaultConfig EXCEPT !.coverage = 50, !.wastage = 0, !.delivery_channel = "Public",
                           !.second_year_coverage_val = 50]}

\* st.session_state as the tabs read it: 'config' and the cost_slider_<region> keys
DefaultSessionConfig ==
    [present |-> TRUE,
     coverage |-> 80, wastage |-> 10, newborn_goats |-> 60, newborn_sheep |-> 40,
     second_year_coverage |-> 100,
     delivery_channel |-> "Mixed",
     delivery_multipliers |->
        [ch \in {"Public", "Mixed", "Private"} |->
            CASE ch = "Public" -> Frac(12, 10)
              [] ch = "Mixed" -> RInt(1)
              [] ch = "Private" -> Frac(85, 100)],
     political_stability |->
        [thresh_low |-> RInt(-1), thresh_high |-> RInt(0),
         mult_high_risk |-> RInt(2), mult_moderate_risk |-> Frac(15, 10),
         mult_low_risk |-> RInt(1)]]

\* st.session_state.get('config', {}) when nothing has stored a config
NoSessionConfig == [present |-> FALSE]

\* episystems.py lines 35-50: the tab's own sidebar values, stored in session state
DefaultScenarioParams ==
    [coverage_rate |-> Frac(80, 100), wastage_rate |-> Frac(15, 100),
     cost_per_animal |-> Frac(25, 100), psi |-> Frac(5, 10), delivery_channel |-> "Mixed"]

\* st.session_state before episystems.render_tab has stored scenario_params
NoScenarioParams == [present |-> FALSE]

DefaultSessionState ==
    [config |-> DefaultSessionConfig, cost_slider |-> DefaultRegionalCost,
     scenario_params |-> NoScenarioParams]

NoCall == [fn |-> "none", done |-> TRUE]
NoView == [tab |-> "none"]

-----------------------------------------------------------------------------
(* The national pipeline *)

Init ==
    /\ national_df \in SeqsUpTo(NationalRows, MaxRows)
    /\ config = DefaultConfig
    /\ country_stats = EmptyDict
    /\ totals = aggregate_totals(EmptyDict)
    /\ view = NoView
    /\ call = NoCall
    /\ subregions_df = <<>>
    /\ session_state = DefaultSessionState
    /\ audit_log = <<>>

\* One run of the streamlit_app.py script with the sidebar set to cfg
Rerun_mut ==
    \E cfg \in SidebarChoices :
        LET stats == Y2Loop(national_df, cfg, Y1Loop(national_df, cfg, country_stats))
        IN  /\ config' = cfg
            /\ country_stats' = stats
            /\ totals' = aggregate_totals(stats)
            /\ view' = [tab |-> "streamlit_app", region_stats |-> app_region_stats(stats)]
            /\ UNCHANGED <<national_df, call, subregions_df, session_state, audit_log>>

Rerun ==
    \E cfg \in SidebarChoices :
        LET stats == compute_country_stats(national_df, cfg)
        IN  /\ config' = cfg
            /\ country_stats' = stats
            /\ totals' = aggregate_totals(stats)
            /\ view' = [tab |-> "streamlit_app", region_stats |-> app_region_stats(stats)]
            /\ UNCHANGED <<national_df, call, subregions_df, session_state, audit_log>>

\* regions_countries.render_tab(country_stats)
RenderRegionsCountries_mut ==
    /\ view.tab # "none"
    /\ LET f == filter_ppr_free_countries(country_stats)
       IN  /\ view' = [tab |-> "regions_countries",
                       filtered_stats |-> f.filtered_stats,
                       excluded_countries |-> f.excluded,
                       region_stats |-> rc_region_stats(f.filtered_stats)]
           /\ country_stats' = f.filtered_stats
    /\ UNCHANGED <<national_df, config, totals, call, subregions_df,
                 session_state, audit_log>>

RenderRegionsCountries ==
    /\ view.tab # "none"
    /\ LET f == filter_ppr_free_countries(country_stats)
       IN  view' = [tab |-> "regions_countries",
                    filtered_stats |-> f.filtered_stats,
                    excluded_countries |-> f.excluded,
                    region_stats |-> rc_region_stats(f.filtered_stats)]
    /\ UNCHANGED <<national_df, config, country_stats, totals, call, subregions_df,
                 session_state, audit_log>>

\* continental_overview.render_tab(country_stats, national_df)
RenderContinentalOverview ==
    /\ view.tab # "none"
    /\ LET f == overview_filter(country_stats)
       IN  view' = [tab |-> "continental_overview",
                    filtered_country_stats |-> f.filtered_stats,
                    excluded_countries |-> f.excluded,
                    included_countries |-> DOMAIN f.filtered_stats,
                    totals |-> overview_totals(f.filtered_stats)]
    /\ UNCHANGED <<national_df, config, country_stats, totals, call, subregions_df,
                 session_state, audit_log>>

Next == Rerun \/ RenderRegionsCountries \/ RenderContinentalOverview

Spec == Init /\ [][Next]_vars

-----------------------------------------------------------------------------
(* Calls of the formulas with inputs drawn from bounded sets *)

MaxPsiTenths == 25

CalcPopulations == {RInt(k * 100) : k \in 0..MaxPop}
CalcCounts == {RInt(k * 80) : k \in 0..MaxPop} \cup {Frac(2 * k + 1, 2) : k \in 0..MaxPop}
CalcDoses == {RInt(k * 88) : k \in 0..MaxPop} \cup {Frac(2 * k + 1, 4) : k \in 0..MaxPop}
CalcBaseCosts == {Frac(k * 176, 10) : k \in 0..MaxPop}
CalcFractions == {Frac(p, 100) : p \in {0, 10, 40, 50, 60, 80, 100}}
CalcWastages == CalcFractions \cup {Frac(150, 100)}
CalcUnitCosts == {RInt(0), Frac(2, 10), Frac(191, 1000), Frac(23, 100)}
CalcPoliticalMults == {RInt(1), Frac(15, 10), RInt(2)}
CalcDeliveryMults == {Frac(12, 10), RInt(1), Frac(85, 100)}
CalcPsi == {Frac(k, 10) : k \in -MaxPsiTenths..MaxPsiTenths}
CalcThresholds ==
    {DefaultThresholds, <<RInt(-1), RInt(0)>>, <<Frac(5, 10), Frac(5, 10)>>,
     <<Frac(7, 10), Frac(4, 10)>>}
CalcMultipliers == {DefaultMultipliers, <<RInt(2), Frac(15, 10), RInt(1)>>}
CalcChannels == {"Public", "Mixed", "Private", "Other"}
CalcDeliveryMaps ==
    {DefaultDeliveryMultipliers,
     [ch \in {"Public", "Private"} |-> IF ch = "Public" THEN Frac(3, 2) ELSE Frac(1, 2)]}
CalcSpecies == {Goats, Sheep, Cattle, goatsLower}
CalcRates ==
    {DefaultNewbornRates,
     [sp \in {Goats, Sheep} |-> IF sp = Goats THEN Frac(1, 4) ELSE Frac(3, 4)]}

Pending(fn, args) ==
    [fn |-> fn, args |-> args, done |-> FALSE, raised |-> FALSE, result |-> Zero]

PendingCalls ==
    {Pending("vaccinated_initial", <<population, coverage>>) :
        population \in CalcPopulations, coverage \in CalcFractions}
    \cup {Pending("doses_required", <<vaccinated, wastage>>) :
        vaccinated \in CalcCounts, wastage \in CalcWastages}
    \cup {Pending("cost_before_adj", <<doses, cost_per_animal>>) :
        doses \in CalcDoses, cost_per_animal \in CalcUnitCosts}
    \cup {Pending("total_cost", <<cost_base, political_mult, delivery_mult_val>>) :
        cost_base \in CalcBaseCosts, political_mult \in CalcPoliticalMults,
        delivery_mult_val \in CalcDeliveryMults}
    \cup {Pending(fn, <<psi, thresholds, multipliers>>) :
        fn \in {"political_multiplier", "get_political_mult"},
        psi \in CalcPsi, thresholds \in CalcThresholds, multipliers \in CalcMultipliers}
    \cup {Pending("delivery_channel_multiplier", <<channel, multipliers>>) :
        channel \in CalcChannels, multipliers \in CalcDeliveryMaps}
    \cup {Pending("delivery_mult", <<channel, m>>) :
        channel \in CalcChannels, m \in CalcDeliveryMults}
    \cup {Pending("newborns", <<species, vaccinated, rates>>) :
        species \in CalcSpecies, vaccinated \in CalcCounts, rates \in CalcRates}
    \cup {Pending("second_year_coverage", <<newborn_count, coverage>>) :
        newborn_count \in CalcCounts, coverage \in CalcFractions}

\* the sidebar values under which a pending call of a streamlit_app.py lookup runs
SidebarFor(c) ==
    CASE c.fn = "get_political_mult" ->
            [DefaultConfig EXCEPT !.thresh_low = c.args[2][1],
                                  !.thresh_high = c.args[2][2],
                                  !.mult_high_risk = c.args[3][1],
                                  !.mult_moderate_risk = c.args[3][2],
                                  !.mult_low_risk = c.args[3][3]]
      [] c.fn = "delivery_mult" ->
            [DefaultConfig EXCEPT !.delivery_channel = c.args[1],
                                  !.del_mult_public = c.args[2]]
      [] OTHER -> DefaultConfig

InitCalc ==
    /\ call \in PendingCalls
    /\ config = SidebarFor(call)
    /\ national_df = <<>>
    /\ country_stats = EmptyDict
    /\ totals = aggregate_totals(EmptyDict)
    /\ view = NoView
    /\ subregions_df = <<>>
    /\ session_state = DefaultSessionState
    /\ audit_log = <<>>

Return(result) ==
    /\ call' = [call EXCEPT !.done = TRUE, !.result = result]
    /\ UNCHANGED <<national_df, config, country_stats, totals, view, subregions_df,
                 session_state, audit_log>>

CallVaccinatedInitial ==
    /\ call.fn = "vaccinated_initial" /\ ~call.done
    /\ Return(vaccinated_initial(call.args[1], call.args[2]))

CallDosesRequired ==
    /\ call.fn = "doses_required" /\ ~call.done
    /\ Return(doses_required(call.args[1], call.args[2]))

CallCostBeforeAdj ==
    /\ call.fn = "cost_before_adj" /\ ~call.done
    /\ Return(cost_before_adj(call.args[1], call.args[2]))

CallTotalCost ==
    /\ call.fn = "total_cost" /\ ~call.done
    /\ Return(total_cost(call.args[1], call.args[2], call.args[3]))

CallPoliticalMultiplier ==
    /\ call.fn = "political_multiplier" /\ ~call.done
    /\ Return(political_multiplier(call.args[1], call.args[2], call.args[3]))

\* streamlit_app.get_political_mult reads the sidebar's thresholds and multipliers
CallGetPoliticalMult ==
    /\ call.fn = "get_political_mult" /\ ~call.done
    /\ Return(get_political_mult(call.args[1], config))

CallDeliveryChannelMultiplier ==
    /\ call.fn = "delivery_channel_multiplier" /\ ~call.done
    /\ Return(delivery_channel_multiplier(call.args[1], call.args[2]))

\* streamlit_app.py lines 202-207 read the sidebar's channel and multipliers
CallDeliveryMult ==
    /\ call.fn = "delivery_mult" /\ ~call.done
    /\ Return(delivery_mult(config))

CallNewborns ==
    /\ call.fn = "newborns" /\ ~call.done
    /\ Return(newborns(call.args[1], call.args[2], call.args[3]))

CallSecondYearCoverage ==
    /\ call.fn = "second_year_coverage" /\ ~call.done
    /\ Return(second_year_coverage(call.args[1], call.args[2]))

NextCalc ==
    \/ CallVaccinatedInitial
    \/ CallDosesRequired
    \/ CallCostBeforeAdj
    \/ CallTotalCost
    \/ CallPoliticalMultiplier
    \/ CallGetPoliticalMult
    \/ CallDeliveryChannelMultiplier
    \/ CallDeliveryMult
    \/ CallNewborns
    \/ CallSecondYearCoverage

SpecCalc == InitCalc /\ [][NextCalc]_vars

-----------------------------------------------------------------------------
(* subregions.py: the Subregions tab *)

\* subregions.py lines 60-63
ppr_free_countries_subregions ==
    {<<"B", "o", "t", "s", "w", "a", "n", "a">>,
     <<"e", "S", "w", "a", "t", "i", "n", "i">>,
     <<"E", "s", "w", "a", "t", "i", "n", "i">>,
     <<"L", "e", "s", "o", "t", "h", "o">>,
     <<"M", "a", "d", "a", "g", "a", "s", "c", "a", "r">>,
     <<"M", "a", "u", "r", "i", "t", "i", "u", "s">>,
     <<"N", "a", "m", "i", "b", "i", "a">>,
     <<"S", "o", "u", "t", "h", " ", "A", "f", "r", "i", "c", "a">>,
     <<"K", "i", "n", "g", "d", "o", "m", " ", "o", "f", " ", "e", "S", "w", "a", "t", "i", "n", "i">>}

\* Python orders strings by code point: the space, then A-Z, then a-z
CodePoints == <<" ">> \o UpperAlpha \o LowerAlpha
ord(ch) == CHOOSE i \in DOMAIN CodePoints : CodePoints[i] = ch

RECURSIVE str_less(_, _)
str_less(a, b) ==
    IF b = <<>> THEN FALSE
    ELSE IF a = <<>> THEN TRUE
    ELSE IF Head(a) = Head(b) THEN str_less(Tail(a), Tail(b))
    ELSE ord(Head(a)) < ord(Head(b))

\* sorted(names)
RECURSIVE sorted(_)
sorted(names) ==
    IF names = {} THEN <<>>
    ELSE LET first == CHOOSE x \in names : \A y \in names \ {x} : str_less(x, y)
         IN  <<first>> \o sorted(names \ {first})

\* a missing Subregion cell
NaNName == "nan"

\* selectbox over an empty list returns None
NoSelection == <<>>

\* int(x) on a float: truncation towards zero
int(x) == IF x.n >= 0 THEN RInt(x.n \div x.d) ELSE RInt(-((-x.n) \div x.d))

\* f"${x:,.2f}": the amount rounded to cents (ties to even)
format_currency(x) ==
    LET q == (x.n * 100) \div x.d
        r == (x.n * 100) % x.d
        cents == IF 2 * r > x.d \/ (2 * r = x.d /\ q % 2 = 1) THEN q + 1 ELSE q
    IN  Frac(cents, 100)

\* subregions.py lines 17-21: the number in the cell, 0 for a missing cell; the
\* result is not a number where float(str(value)) raises ValueError
clean_population(value) == IF ~notnull(value) THEN Zero ELSE value

\* subregions.py lines 43-50
sub_get_political_mult(psi, cfg) ==
    IF RLess(psi, cfg.political_stability.thresh_low)
    THEN cfg.political_stability.mult_high_risk
    ELSE IF RLess(psi, cfg.political_stability.thresh_high)
    THEN cfg.political_stability.mult_moderate_risk
    ELSE cfg.political_stability.mult_low_risk

\* subregions.py line 66
available_countries(df) ==
    sorted({df[i].Country : i \in DOMAIN df} \ ppr_free_countries_subregions)

\* subregions.py lines 72-89: per subregion, the last Goats row and the last Sheep row
RECURSIVE group_loop(_, _)
group_loop(rows, grouped) ==
    IF rows = <<>> THEN grouped
    ELSE LET row == Head(rows)
             subregion == IF row.Subregion # NaNName THEN row.Subregion ELSE "Unknown"
             found == {i \in DOMAIN grouped : grouped[i].Subregion = subregion}
             withKey == IF found = {}
                        THEN Append(grouped, [Subregion |-> subregion,
                                              goats_data |-> <<>>, sheep_data |-> <<>>])
                        ELSE grouped
             i == IF found = {} THEN Len(withKey) ELSE CHOOSE j \in found : TRUE
         IN  IF row.Specie = Goats
             THEN group_loop(Tail(rows), [withKey EXCEPT ![i].goats_data = <<row>>])
             ELSE IF row.Specie = Sheep
             THEN group_loop(Tail(rows), [withKey EXCEPT ![i].sheep_data = <<row>>])
             ELSE group_loop(Tail(rows), grouped)

\* subregions.py lines 110-118
EmptySubregionRow(subregion, psi) ==
    [Subregion |-> subregion, Political_Stability_Index |-> psi,
     GoatsY1 |-> Zero, SheepY1 |-> Zero, TotalY1 |-> Zero,
     CostY1 |-> Zero, DosesY1 |-> Zero, WastedY1 |-> Zero,
     GoatsY2 |-> Zero, SheepY2 |-> Zero, TotalY2 |-> Zero,
     CostY2 |-> Zero, DosesY2 |-> Zero, WastedY2 |-> Zero,
     TotalCampaignCost |-> Zero]

\* subregions.py lines 121-150 (goats) and 153-182 (sheep): the figures of one species;
\* failed marks the except branch taken at clean_population, before any figure
species_figures(data, newborn_pct, cfg, cost_per_animal, political_mult, deliv_mult) ==
    LET pop_raw == IF notnull(data.Coverage100) THEN data.Coverage100 ELSE Zero
        cleaned == clean_population(pop_raw)
        failed == ~is_number(cleaned)
        population == IF failed THEN Zero ELSE cleaned
        coverage_frac == Frac(cfg.coverage, 100)
        vaccinated == vaccinated_initial(population, coverage_frac)
        doses == doses_required(vaccinated, Frac(cfg.wastage, 100))
        total_cost_val ==
            total_cost(cost_before_adj(doses, cost_per_animal), political_mult, deliv_mult)
        newborn_rate == Frac(newborn_pct, 100)
        newborn_count == RMul(vaccinated, newborn_rate)
        second_year_coverage_frac == Frac(cfg.second_year_coverage, 100)
        vaccinated_y2 == second_year_coverage(newborn_count, second_year_coverage_frac)
        doses_y2 == doses_required(vaccinated_y2, Frac(cfg.wastage, 100))
        total_cost_val_y2 ==
            total_cost(cost_before_adj(doses_y2, cost_per_animal), political_mult, deliv_mult)
    IN  [failed |-> failed,
         vaccinated |-> vaccinated, doses |-> doses, cost |-> total_cost_val,
         vaccinated_y2 |-> vaccinated_y2, doses_y2 |-> doses_y2, cost_y2 |-> total_cost_val_y2]

add_figures(row, f) ==
    [row EXCEPT !.DosesY1 = RAdd(@, f.doses),
                !.CostY1 = RAdd(@, f.cost),
                !.WastedY1 = RAdd(@, RSub(f.doses, f.vaccinated)),
                !.DosesY2 = RAdd(@, f.doses_y2),
                !.CostY2 = RAdd(@, f.cost_y2),
                !.WastedY2 = RAdd(@, RSub(f.doses_y2, f.vaccinated_y2))]

\* subregions.py lines 93-194: the table row of one subregion
subregion_row(species_data, psi, cfg, cost_per_animal, political_mult, deliv_mult) ==
    LET row0 == EmptySubregionRow(species_data.Subregion, psi)
        row1 == IF species_data.goats_data # <<>>
                THEN LET f == species_figures(species_data.goats_data[1], cfg.newborn_goats,
                                              cfg, cost_per_animal, political_mult, deliv_mult)
                     IN  IF f.failed THEN row0
                         ELSE [add_figures(row0, f) EXCEPT !.GoatsY1 = int(f.vaccinated),
                                                           !.GoatsY2 = int(f.vaccinated_y2)]
                ELSE row0
        row2 == IF species_data.sheep_data # <<>>
                THEN LET f == species_figures(species_data.sheep_data[1], cfg.newborn_sheep,
                                              cfg, cost_per_animal, political_mult, deliv_mult)
                     IN  IF f.failed THEN row1
                         ELSE [add_figures(row1, f) EXCEPT !.SheepY1 = int(f.vaccinated),
                                                           !.SheepY2 = int(f.vaccinated_y2)]
                ELSE row1
        campaign_total == RAdd(row2.CostY1, row2.CostY2)
    IN  [row2 EXCEPT !.TotalY1 = RAdd(row2.GoatsY1, row2.SheepY1),
                     !.TotalY2 = RAdd(row2.GoatsY2, row2.SheepY2),
                     !.CostY1 = format_currency(row2.CostY1),
                     !.CostY2 = format_currency(row2.CostY2),
                     !.TotalCampaignCost = format_currency(campaign_total)]

\* subregions.py lines 193-194: a row is appended only if it vaccinates an animal
appended(row) == IF row.TotalY1.n > 0 \/ row.TotalY2.n > 0 THEN <<row>> ELSE <<>>

RECURSIVE subregion_table_loop(_, _, _, _, _, _)
subregion_table_loop(grouped, psi, cfg, cost_per_animal, political_mult, deliv_mult) ==
    IF grouped = <<>> THEN <<>>
    ELSE appended(subregion_row(Head(grouped), psi, cfg, cost_per_animal,
                                political_mult, deliv_mult))
         \o subregion_table_loop(Tail(grouped), psi, cfg, cost_per_animal,
                                 political_mult, deliv_mult)

\* df[df["Country"] == country]
RECURSIVE rows_of_country(_, _)
rows_of_country(df, country) ==
    IF df = <<>> THEN <<>>
    ELSE IF Head(df).Country = country
    THEN <<Head(df)>> \o rows_of_country(Tail(df), country)
    ELSE rows_of_country(Tail(df), country)

\* subregions.py lines 52-213: what render_tab computes for the selected country;
\* raised names the exception that ends the run, delivery_mult holds the value of
\* line 107 once it has been computed
build_subregion_table(df, national, ss, selected_country) ==
    LET cfg == ss.config
        subregion_data == rows_of_country(df, selected_country)
        grouped == group_loop(subregion_data, <<>>)
        country_data == rows_of_country(national, selected_country)
        psi == IF country_data # <<>> /\ notnull(country_data[1].Political_Stability_Index)
               THEN country_data[1].Political_Stability_Index
               ELSE Frac(3, 10)
        region == cost_data_region_of(selected_country)
        cost_per_animal == DictGet(ss.cost_slider, region, Zero)
        shown == [tab |-> "subregions",
                  available_countries |-> available_countries(df),
                  selected_country |-> selected_country,
                  grouped |-> grouped,
                  delivery_mult |-> <<>>,
                  subregion_table |-> <<>>,
                  messages |-> <<>>,
                  raised |-> "none"]
    IN  IF grouped = <<>> THEN shown
        ELSE IF ~cfg.present THEN [shown EXCEPT !.raised = "KeyError"]
        ELSE IF cfg.delivery_channel \notin DOMAIN cfg.delivery_multipliers
        THEN [shown EXCEPT !.raised = "KeyError"]
        ELSE LET political_mult == sub_get_political_mult(psi, cfg)
                 deliv_mult == cfg.delivery_multipliers[cfg.delivery_channel]
             IN  [shown EXCEPT
                    !.delivery_mult = <<deliv_mult>>,
                    !.subregion_table =
                        subregion_table_loop(grouped, psi, cfg, cost_per_animal,
                                             political_mult, deliv_mult)]

\* subregions.py lines 196-213: the messages shown once the table is built (the
\* except branches of lines 149-150 and 181-182 are `pass` and show none)
shown_messages(shown) ==
    [shown EXCEPT !.messages = IF shown.raised = "none" /\ shown.subregion_table = <<>>
                               THEN <<"No data available">> ELSE <<>>]

\* subregions.py lines 52-213
subregions_render(df, national, ss, selected_country) ==
    shown_messages(build_subregion_table(df, national, ss, selected_country))

(* Inputs of the Subregions tab *)

MaxSubRows == 2

SubPopOf(specie, subregion) ==
    IF specie = Sheep /\ subregion = NaNName THEN NaN
    ELSE IF specie = Goats THEN RInt(1001)
    ELSE IF specie = Sheep THEN RInt(500)
    ELSE RInt(200)

SubregionRows ==
    {[Country |-> c, Subregion |-> sr, Specie |-> sp, Coverage100 |-> SubPopOf(sp, sr)] :
        c \in {Kenya, Eswatini, southafrica, NewLesotho},
        sr \in {"Rift Valley", NaNName},
        sp \in {Goats, Sheep, Cattle}}
    \cup {[Country |-> Kenya, Subregion |-> "Rift Valley", Specie |-> Goats,
           Coverage100 |-> TextCell]}

SubNationalTables ==
    {<<>>} \cup {<<r>> : r \in {x \in NationalRows :
                                    x.Species = goatsLower /\ x.Country \in {Kenya, southafrica}}}

SessionStates ==
    {DefaultSessionState,
     [DefaultSessionState EXCEPT !.config.delivery_channel = "Other"],
     [DefaultSessionState EXCEPT !.config.coverage = 50, !.config.wastage = 0,
                                 !.config.delivery_channel = "Public",
                                 !.cost_slider = EmptyDict],
     [DefaultSessionState EXCEPT !.config = NoSessionConfig]}

InitSub ==
    /\ subregions_df \in SeqsUpTo(SubregionRows, MaxSubRows)
    /\ national_df \in SubNationalTables
    /\ session_state \in SessionStates
    /\ audit_log = <<>>
    /\ config = DefaultConfig
    /\ country_stats = EmptyDict
    /\ totals = aggregate_totals(EmptyDict)
    /\ view = NoView
    /\ call = NoCall

\* subregions.render_tab(subregions_df, national_df) with the country picked in the selectbox
RenderSubregions ==
    /\ LET available == available_countries(subregions_df)
           options == IF available = <<>> THEN {NoSelection}
                      ELSE {available[i] : i \in DOMAIN available}
       IN  \E selected_country \in options :
               view' = subregions_render(subregions_df, national_df, session_state,
                                         selected_country)
    /\ UNCHANGED <<national_df, config, country_stats, totals, call, subregions_df,
                   session_state, audit_log>>

NextSub == RenderSubregions

SpecSub == InitSub /\ [][NextSub]_vars

-----------------------------------------------------------------------------
(* ui/episystems.py: the Episystems tab *)

\* episystems.py lines 91-158, in the order of the dict
EpisystemOrder ==
    <<"Chad-Sudan (DARFUR)",
      "Karamoja",
      "Mano River",
      "Sahel",
      "Southern Protection Zone",
      "Coastal Western Africa",
      "Lake Chad Basin",
      "Nile",
      "Somali">>

episystems_data ==
    ("Chad-Sudan (DARFUR)" :> (
        (<<"C", "h", "a", "d">> :>
            {"Ouaddai", "Sila", "Batha Est", "Batha Ouest", "Biltine"})
        @@
        (<<"S", "u", "d", "a", "n">> :>
            {"North Darfur", "South Darfur", "West Darfur"})))
    @@
    ("Karamoja" :> (
        (<<"U", "g", "a", "n", "d", "a">> :>
            {"Kotido", "Kitgum", "Moroto", "Lira", "Soroti"})
        @@
        (<<"K", "e", "n", "y", "a">> :>
            {"Rift Valley"})
        @@
        (<<"E", "t", "h", "i", "o", "p", "i", "a">> :>
            {"SNNP"})
        @@
        (<<"S", "o", "u", "t", "h", " ", "S", "u", "d", "a", "n">> :>
            {"Eastern Equatoria"})))
    @@
    ("Mano River" :> (
        (<<"G", "u", "i", "n", "e", "a">> :>
            {"Faranah", "Kankan", "N'Zerekore"})
        @@
        (<<"S", "i", "e", "r", "r", "a", " ", "L", "e", "o", "n", "e">> :>
            {"Northern", "Eastern"})
        @@
        (<<"L", "i", "b", "e", "r", "i", "a">> :>
            {"Lofa", "Nimba", "Bong", "Gbarpolu"})
        @@
        (<<"C", "ô", "t", "e", " ", "d", "'", "I", "v", "o", "i", "r", "e">> :>
            {"18 Montagnes", "Denguele", "Bafing", "Haut-Sassandra", "Worodougou"})))
    @@
    ("Sahel" :> (
        (<<"S", "e", "n", "e", "g", "a", "l">> :>
            {"Saint-Louis"})
        @@
        (<<"M", "a", "u", "r", "i", "t", "a", "n", "i", "a">> :>
            {"Brakna", "Tagant", "Assaba", "Gorgol", "Guidimakha", "Hodh Ech Chargi", "Hodh El Gharbi"})
        @@
        (<<"M", "a", "l", "i">> :>
            {"Bamako", "Mopti", "Tombouctou", "Gao", "Kidal", "Segou"})
        @@
        (<<"N", "i", "g", "e", "r">> :>
            {"Agadez", "Diffa", "Dosso", "Maradi", "Niamey", "Tahoua", "Tillaberi", "Zinder"})
        @@
        (<<"C", "h", "a", "d">> :>
            {"Hadjer Lamis", "Lac", "Kanem", "Barh El Gazal"})
        @@
        (<<"B", "u", "r", "k", "i", "n", "a", " ", "F", "a", "s", "o">> :>
            {"Sahel", "Nord", "Centre-Nord", "Est", "Plateau Central", "Centre-Est"})
        @@
        (<<"B", "e", "n", "i", "n">> :>
            {"Atacora", "Alibori"})
        @@
        (<<"N", "i", "g", "e", "r", "i", "a">> :>
            {"Kebbi", "Zamfara", "Sokoto", "Katsina", "Kano", "Jigawa", "Yobe", "Borno"})))
    @@
    ("Southern Protection Zone" :> (
        (<<"A", "n", "g", "o", "l", "a">> :>
            {"Moxico", "Lunda Sul"})
        @@
        (<<"B", "u", "r", "u", "n", "d", "i">> :>
            {"Bubanza", "Bujumbura-Mairie", "Bujumbura-Rural", "Bururi", "Cankuzo", "Cibitoke", "Gitega", "Karuzi", "Kayanza", "Kirundo", "Makamba", "Muramvya", "Muyinga", "Mwaro", "Ngozi", "Rutana", "Ruyigi", "Waterbody"})
        @@
        (<<"D", "e", "m", "o", "c", "r", "a", "t", "i", "c", " ", "R", "e", "p", "u", "b", "l", "i", "c", " ", "o", "f", " ", "t", "h", "e", " ", "C", "o", "n", "g", "o">> :>
            {"Katanga", "Sud-Kivu", "Maniema", "Kasai-Oriental", "Kasai-Occidental"})
        @@
        (<<"R", "w", "a", "n", "d", "a">> :>
            {"Butare", "Byumba", "Cyangugu", "Gikongoro", "Gisenyi", "Gitarama", "Kibungo", "Kibuye", "Kigali-ngali", "Prefecture De La Ville De Kigali", "Ruhengeri", "Umutara"})
        @@
        (<<"U", "n", "i", "t", "e", "d", " ", "R", "e", "p", "u", "b", "l", "i", "c", " ", "o", "f", " ", "T", "a", "n", "z", "a", "n", "i", "a">> :>
            {"Kigoma", "Rukwa", "Kagera", "Tabora"})
        @@
        (<<"Z", "a", "m", "b", "i", "a">> :>
            {"Luapula", "Northern", "North-Western"})))
    @@
    ("Coastal Western Africa" :> (
        (<<"G", "h", "a", "n", "a">> :>
            {"Northern"})
        @@
        (<<"T", "o", "g", "o">> :>
            {"Centrale", "Kara", "Plateaux", "Savanes"})
        @@
        (<<"B", "e", "n", "i", "n">> :>
            {"Borgou", "Donga", "Collines", "Zou"})
        @@
        (<<"N", "i", "g", "e", "r", "i", "a">> :>
            {"Abia", "Akwa Ibom", "Anambra", "Bayelsa", "Benue", "Cross River", "Delta", "Ebonyi", "Edo", "Ekiti"})
        @@
        (<<"C", "a", "m", "e", "r", "o", "o", "n">> :>
            {"Sud-Ouest", "Sud", "Littoral", "Ouest", "Nord-Ouest", "Centre", "Est", "Extreme-Nord"})
        @@
        (<<"E", "q", "u", "a", "t", "o", "r", "i", "a", "l", " ", "G", "u", "i", "n", "e", "a">> :>
            {"Annobon", "Bioko Norte", "Bioko Sur", "Centro Sur", "Kientem", "Litoral", "Welenzas"})
        @@
        (<<"G", "a", "b", "o", "n">> :>
            {"ESTUAIRE", "WOLEU-NTEM", "MOYEN-OGOOUE", "OGOOUE-IVINDO"})
        @@
        (<<"C", "o", "n", "g", "o">> :>
            {"Cuvette Ouest", "Sangha"})))
    @@
    ("Lake Chad Basin" :> (
        (<<"N", "i", "g", "e", "r", "i", "a">> :>
            {"Borno", "Adamawa", "Taraba", "Gombe", "Plateau"})
        @@
        (<<"C", "a", "m", "e", "r", "o", "o", "n">> :>
            {"Adamaoua", "Nord", "Extreme-Nord"})
        @@
        (<<"C", "h", "a", "d">> :>
            {"Logone Occidental", "Tandjile Est", "Tandjile Ouest", "Kanem", "Barh El Gazal", "Lac", "Hadjer Lamis", "Mayo-Dala"})
        @@
        (<<"C", "e", "n", "t", "r", "a", "l", " ", "A", "f", "r", "i", "c", "a", "n", " ", "R", "e", "p", "u", "b", "l", "i", "c">> :>
            {"Ouham", "Bamingui-bangora"})
        @@
        (<<"N", "i", "g", "e", "r">> :>
            {"Tillaberi", "Zinder"})))
    @@
    ("Nile" :> (
        (<<"S", "u", "d", "a", "n">> :>
            {"Khartoum", "Kassala", "Gadaref", "Al Jazeera"})
        @@
        (<<"E", "t", "h", "i", "o", "p", "i", "a">> :>
            {"Amhara"})))
    @@
    ("Somali" :> (
        (<<"K", "e", "n", "y", "a">> :>
            {"North Eastern Province"})
        @@
        (<<"E", "t", "h", "i", "o", "p", "i", "a">> :>
            {"Oromia", "Somali"})
        @@
        (<<"S", "o", "m", "a", "l", "i", "a">> :>
            {"Bay", "Bakool", "Gedo"})
        @@
        (<<"D", "j", "i", "b", "o", "u", "t", "i">> :>
            {"Ali Sabieh", "Dikhil"})
        @@
        (<<"U", "g", "a", "n", "d", "a">> :>
            {"Kitgum", "Kotido", "Moroto"})))

\* episystems.py lines 169-173
episystem_regions ==
    UNION {UNION {{<<country, region>> : region \in episystems_data[e][country]} :
                      country \in DOMAIN episystems_data[e]} :
               e \in DOMAIN episystems_data}

\* episystems.py lines 175-177
episystem_filter_mut(df) == df

RECURSIVE episystem_filter(_)
episystem_filter(df) ==
    IF df = <<>> THEN <<>>
    ELSE (IF <<Head(df).Country, Head(df).Subregion>> \in episystem_regions
          THEN <<Head(df)>> ELSE <<>>)
         \o episystem_filter(Tail(df))

\* episystems.py line 192: the (Country, Subregion) pairs in order of first appearance
RECURSIVE drop_duplicates(_, _)
drop_duplicates(df, seen) ==
    IF df = <<>> THEN <<>>
    ELSE LET pair == <<Head(df).Country, Head(df).Subregion>>
         IN  IF pair \in seen THEN drop_duplicates(Tail(df), seen)
             ELSE <<pair>> \o drop_duplicates(Tail(df), seen \cup {pair})

\* episystems.py lines 207-219: df[mask].iloc[0] if len(df[mask]) > 0 else None
RECURSIVE first_match(_, _, _)
first_match(df, pair, specie) ==
    IF df = <<>> THEN <<>>
    ELSE IF <<Head(df).Country, Head(df).Subregion>> = pair /\ Head(df).Specie = specie
    THEN <<Head(df)>>
    ELSE first_match(Tail(df), pair, specie)

\* float + float where either may be nan
nan_add(x, y) == IF is_number(x) /\ is_number(y) THEN RAdd(x, y) ELSE NaN

\* Series.sum(): nan cells are skipped
RECURSIVE nansum(_, _)
nansum(rows, col) ==
    IF rows = <<>> THEN Zero
    ELSE IF is_number(Head(rows).fig[col]) THEN RAdd(Head(rows).fig[col], nansum(Tail(rows), col))
    ELSE nansum(Tail(rows), col)

\* the result {} of calculate_costs: every .get(..., 0) yields 0
NoResult ==
    [failed |-> FALSE, animals_vaccinated |-> Zero, doses_needed |-> Zero,
     doses_wasted |-> Zero, total_cost |-> Zero]

\* episystems.py lines 225-273; failed marks the except branch, which calls st.error
calculate_costs(data, year, params) ==
    IF data = <<>> THEN NoResult
    ELSE IF data[1].Coverage100 = NaN
    THEN [failed |-> FALSE, animals_vaccinated |-> NaN, doses_needed |-> NaN,
          doses_wasted |-> NaN, total_cost |-> NaN]
    ELSE IF ~is_number(data[1].Coverage100) THEN [NoResult EXCEPT !.failed = TRUE]
    ELSE LET population == data[1].Coverage100
             vacc_init == vaccinated_initial(population, params.coverage_rate)
             animals == IF year = 1 THEN vacc_init
                        ELSE second_year_coverage(
                                 newborns(data[1].Specie, vacc_init, DefaultNewbornRates), One)
             doses == doses_required(animals, params.wastage_rate)
             cost_adj == cost_before_adj(doses, params.cost_per_animal)
             pol_mult == political_multiplier(params.psi, DefaultThresholds, DefaultMultipliers)
             del_mult == delivery_channel_multiplier(params.delivery_channel,
                                                     DefaultDeliveryMultipliers)
         IN  [failed |-> FALSE, animals_vaccinated |-> animals, doses_needed |-> doses,
              doses_wasted |-> RSub(doses, animals),
              total_cost |-> total_cost(cost_adj, pol_mult, del_mult)]

EpisystemColumns ==
    {"Goats Y1", "Sheep Y1", "Total Y1", "Cost Y1", "Doses Y1", "Wasted Y1",
     "Goats Y2", "Sheep Y2", "Total Y2", "Cost Y2", "Doses Y2", "Wasted Y2"}

\* episystems.py lines 275-286, scenario_builder.py lines 388-402: the row built from the
\* two species' results of both years
result_row(goats, sheep, pair) ==
    LET year_of(col) == IF col \in {"Goats Y1", "Sheep Y1", "Total Y1", "Cost Y1", "Doses Y1",
                                    "Wasted Y1"} THEN 1 ELSE 2
        figure(col) ==
            LET g == goats[year_of(col)]
                sh == sheep[year_of(col)]
            IN  IF col \in {"Goats Y1", "Goats Y2"} THEN g.animals_vaccinated
                ELSE IF col \in {"Sheep Y1", "Sheep Y2"} THEN sh.animals_vaccinated
                ELSE IF col \in {"Total Y1", "Total Y2"}
                THEN nan_add(g.animals_vaccinated, sh.animals_vaccinated)
                ELSE IF col \in {"Cost Y1", "Cost Y2"} THEN nan_add(g.total_cost, sh.total_cost)
                ELSE IF col \in {"Doses Y1", "Doses Y2"}
                THEN nan_add(g.doses_needed, sh.doses_needed)
                ELSE nan_add(g.doses_wasted, sh.doses_wasted)
    IN  [Country |-> pair[1], Subregion |-> pair[2],
         fig |-> [col \in EpisystemColumns |-> figure(col)],
         errors |-> Cardinality({<<sp, year>> \in {"g", "s"} \X {1, 2} :
                                    IF sp = "g" THEN goats[year].failed ELSE sheep[year].failed})]

\* episystems.py lines 195-290: the results row of one (Country, Subregion) pair
episystem_row(df, pair, params) ==
    result_row([year \in {1, 2} |-> calculate_costs(first_match(df, pair, Goats), year, params)],
               [year \in {1, 2} |-> calculate_costs(first_match(df, pair, Sheep), year, params)],
               pair)

RECURSIVE episystem_rows(_, _, _)
episystem_rows(df, pairs, params) ==
    IF pairs = <<>> THEN <<>>
    ELSE <<episystem_row(df, Head(pairs), params)>> \o episystem_rows(df, Tail(pairs), params)

\* episystems.py lines 376-382
RECURSIVE get_episystem_from(_, _)
get_episystem_from(order, row) ==
    IF order = <<>> THEN "Unknown"
    ELSE IF /\ row.Country \in DOMAIN episystems_data[Head(order)]
            /\ row.Subregion \in episystems_data[Head(order)][row.Country]
    THEN Head(order)
    ELSE get_episystem_from(Tail(order), row)

get_episystem_mut(row) ==
    get_episystem_from([i \in DOMAIN EpisystemOrder |->
                           EpisystemOrder[Len(EpisystemOrder) + 1 - i]], row)

get_episystem(row) == get_episystem_from(EpisystemOrder, row)

RECURSIVE rows_of_episystem(_, _)
rows_of_episystem(rows, episystem) ==
    IF rows = <<>> THEN <<>>
    ELSE (IF get_episystem(Head(rows)) = episystem THEN <<Head(rows)>> ELSE <<>>)
         \o rows_of_episystem(Tail(rows), episystem)

AggColumns ==
    {"Total Y1", "Cost Y1", "Doses Y1", "Wasted Y1",
     "Total Y2", "Cost Y2", "Doses Y2", "Wasted Y2"}

\* groupby(...).agg(sum) and the added Total Campaign Cost (episystems.py 387-400)
column_sums(rows) ==
    [col \in AggColumns \cup {"Total Campaign Cost"} |->
        IF col = "Total Campaign Cost"
        THEN RAdd(nansum(rows, "Cost Y1"), nansum(rows, "Cost Y2"))
        ELSE nansum(rows, col)]

\* episystems.py lines 183-400: display_scenario_results(filtered_df, episystems_data)
display_scenario_results(selected_regions_data, params) ==
    LET results == episystem_rows(selected_regions_data,
                                  drop_duplicates(selected_regions_data, {}), params)
    IN  [tab |-> "episystems",
         results_table |-> results,
         campaign |-> column_sums(results),
         episystem_agg |->
            [e \in {get_episystem(results[i]) : i \in DOMAIN results} |->
                column_sums(rows_of_episystem(results, e))],
         errors |-> IF results = <<>> THEN 0
                    ELSE RSum([i \in DOMAIN results |-> RInt(results[i].errors)]).n]

(* scenario_builder.py: the Scenario Builder tab *)

\* scenario_builder.py lines 305-307: the grouping key of a selected row
scenario_key(row_data) ==
    <<row_data.Country, IF row_data.Subregion = NaNName THEN "Unknown" ELSE row_data.Subregion>>

\* scenario_builder.py lines 304-321: the keys of grouped_data in insertion order; only a
\* Goats or Sheep row touches grouped_data[key]
RECURSIVE grouped_keys(_, _)
grouped_keys(rows, seen) ==
    IF rows = <<>> THEN <<>>
    ELSE IF Head(rows).Specie \notin {Goats, Sheep} \/ scenario_key(Head(rows)) \in seen
    THEN grouped_keys(Tail(rows), seen)
    ELSE <<scenario_key(Head(rows))>>
         \o grouped_keys(Tail(rows), seen \cup {scenario_key(Head(rows))})

\* scenario_builder.py lines 318-321: grouped_data[key]["goats_data"] = row_data, every
\* later row of the same key and species overwriting the earlier one
RECURSIVE grouped_data(_, _, _)
grouped_data(rows, key, specie) ==
    IF rows = <<>> THEN <<>>
    ELSE LET row_data == rows[Len(rows)]
         IN  IF scenario_key(row_data) = key /\ row_data.Specie = specie THEN <<row_data>>
             ELSE grouped_data(SubSeq(rows, 1, Len(rows) - 1), key, specie)

\* scenario_builder.py lines 336-386: calculate_costs(data, year) reads
\* st.session_state.scenario_params inside the try block; the AttributeError of a session
\* without it is caught, shown with st.error, and {} returned
scenario_calculate_costs(data, year, state) ==
    IF data = <<>> THEN NoResult
    ELSE IF state.scenario_params = NoScenarioParams THEN [NoResult EXCEPT !.failed = TRUE]
    ELSE calculate_costs(data, year, state.scenario_params)

scenario_row(rows, key, state) ==
    result_row([year \in {1, 2} |->
                   scenario_calculate_costs(grouped_data(rows, key, Goats), year, state)],
               [year \in {1, 2} |->
                   scenario_calculate_costs(grouped_data(rows, key, Sheep), year, state)],
               key)

RECURSIVE scenario_rows(_, _, _)
scenario_rows(rows, keys, state) ==
    IF keys = <<>> THEN <<>>
    ELSE <<scenario_row(rows, Head(keys), state)>> \o scenario_rows(rows, Tail(keys), state)

\* scenario_builder.py lines 296-416: display_scenario_results(selected_regions_data)
scenario_results(selected_regions_data, state) ==
    LET results == scenario_rows(selected_regions_data,
                                 grouped_keys(selected_regions_data, {}), state)
    IN  [tab |-> "scenario_builder",
         from |-> selected_regions_data,
         results_table |-> results,
         campaign |-> column_sums(results),
         errors |-> IF results = <<>> THEN 0
                    ELSE RSum([i \in DOMAIN results |-> RInt(results[i].errors)]).n]

\* scenario_builder.py lines 243-267 with "All regions": the records of each selected
\* country, in the order the countries were picked
RECURSIVE selected_rows(_, _)
selected_rows(df, selected_countries) ==
    IF selected_countries = <<>> THEN <<>>
    ELSE SelectSeq(df, LAMBDA row : row.Country = Head(selected_countries))
         \o selected_rows(df, Tail(selected_countries))

\* scenario_builder.py lines 232-238: what the multiselect over the table's countries can hold
CountrySelections(df) ==
    LET countries == {df[i].Country : i \in DOMAIN df}
    IN  {<<c>> : c \in countries}
        \cup {pick \in countries \X countries : pick[1] # pick[2] /\ Cardinality(countries) = 2}

(* Inputs of the Episystems tab *)

MaxEpiRows == 2

EpiPairs ==
    {<<Kenya, "Rift Valley">>, <<Kenya, "Nairobi">>, <<Mali, "Mopti">>, <<Mali, NaNName>>}

\* Borno is listed under both "Sahel" and "Lake Chad Basin"
Nigeria == <<"N", "i", "g", "e", "r", "i", "a">>

EpiRows ==
    {[Country |-> p[1], Subregion |-> p[2], Specie |-> Goats,
      Coverage100 |-> SubPopOf(Goats, p[2])] : p \in EpiPairs}
    \cup {[Country |-> p[1], Subregion |-> p[2], Specie |-> Sheep,
           Coverage100 |-> SubPopOf(Sheep, p[2])] :
             p \in {<<Kenya, "Rift Valley">>, <<Mali, "Mopti">>}}
    \cup {[Country |-> Kenya, Subregion |-> "Rift Valley", Specie |-> Cattle,
           Coverage100 |-> SubPopOf(Cattle, "Rift Valley")]}
    \cup {[Country |-> Mali, Subregion |-> "Mopti", Specie |-> Sheep, Coverage100 |-> x] :
             x \in {NaN, TextCell}}
    \cup {[Country |-> Nigeria, Subregion |-> "Borno", Specie |-> Goats,
           Coverage100 |-> SubPopOf(Goats, "Borno")]}

ScenarioParamChoices ==
    {DefaultScenarioParams,
     [DefaultScenarioParams EXCEPT !.coverage_rate = Frac(50, 100), !.wastage_rate = Zero,
                                   !.psi = Frac(-5, 10), !.delivery_channel = "Public"]}

InitEpi ==
    /\ subregions_df \in SeqsUpTo(EpiRows, MaxEpiRows)
    /\ national_df \in {<<>>} \cup {<<r>> : r \in {x \in NationalRows :
                                                   x.Country = Kenya /\ x.Species = goatsLower}}
    /\ session_state = DefaultSessionState
    /\ audit_log = <<>>
    /\ config = DefaultConfig
    /\ country_stats = compute_country_stats(national_df, config)
    /\ totals = aggregate_totals(country_stats)
    /\ view = [tab |-> "streamlit_app", region_stats |-> app_region_stats(country_stats)]
    /\ call = NoCall

\* episystems.render_tab(subregions_df) with "Calculate Episystem Costs" pressed
RenderEpisystems ==
    \E params \in ScenarioParamChoices :
        /\ session_state' = [session_state EXCEPT !.scenario_params = params]
        /\ view' = display_scenario_results(episystem_filter(subregions_df), params)
        /\ UNCHANGED <<national_df, config, country_stats, totals, call, subregions_df,
                     audit_log>>

\* scenario_builder.render_tab(subregions_df): countries picked in the multiselect, "All
\* regions" kept for each, and "Calculate" pressed
RenderScenarioBuilder ==
    \E selected_countries \in CountrySelections(subregions_df) :
        LET selected_regions_data == selected_rows(subregions_df, selected_countries)
        IN  /\ selected_regions_data # <<>>
            /\ view' = scenario_results(selected_regions_data, session_state)
            /\ UNCHANGED <<national_df, config, country_stats, totals, call, subregions_df,
                           session_state, audit_log>>

NextEpi == RenderEpisystems \/ RenderScenarioBuilder

SpecEpi == InitEpi /\ [][NextEpi]_vars

-----------------------------------------------------------------------------
(* src/data_load.py: reading and validating the source files *)

\* a cell: a text, a number, or missing (None / nan)
Text(s) == [text |-> s, number |-> NaN]
Number(x) == [text |-> "", number |-> x]
Missing == [text |-> "", number |-> NaN]

\* a DataFrame: its column names in order, its columns, its number of rows
Frame(columns, data, nrows) == [columns |-> columns, data |-> data, nrows |-> nrows]

Names(columns) == {columns[i] : i \in DOMAIN columns}

\* `col in df.columns`
has_column(df, col) == col \in Names(df.columns)

\* df.rename(columns={old: new})
rename(df, old, new) ==
    Frame([i \in DOMAIN df.columns |-> IF df.columns[i] = old THEN new ELSE df.columns[i]],
          [c \in (Names(df.columns) \ {old}) \cup {new} |->
              IF c = new THEN df.data[old] ELSE df.data[c]],
          df.nrows)

\* df[col] = column
set_column(df, col, column) ==
    Frame(IF has_column(df, col) THEN df.columns ELSE Append(df.columns, col),
          [c \in Names(df.columns) \cup {col} |-> IF c = col THEN column ELSE df.data[c]],
          df.nrows)

\* df[col] = value
set_value(df, col, value) == set_column(df, col, [i \in 1..df.nrows |-> value])

\* [col for col in cols if col in names], [c for c in cols if c not in names]
RECURSIVE those_in(_, _)
those_in(cols, names) ==
    IF cols = <<>> THEN <<>>
    ELSE (IF Head(cols) \in names THEN <<Head(cols)>> ELSE <<>>) \o those_in(Tail(cols), names)

RECURSIVE those_not_in(_, _)
those_not_in(cols, names) ==
    IF cols = <<>> THEN <<>>
    ELSE (IF Head(cols) \notin names THEN <<Head(cols)>> ELSE <<>>)
         \o those_not_in(Tail(cols), names)

\* df[cols]
select(df, cols) == Frame(cols, [c \in Names(cols) |-> df.data[c]], df.nrows)

\* Series.fillna(0)
fillna0(column) == [i \in DOMAIN column |-> IF column[i] = Missing THEN Number(Zero) ELSE column[i]]

\* the audit-log entries (data_load.py lines 19, 22, 38, 41, 48, 52, 65, 69, 81)
ReadMarkdownEntry(path) == <<"Read Markdown", path>>
ErrorMarkdownEntry(path) == <<"ERROR reading Markdown", path>>
ReadXlsxEntry(path) == <<"Read XLSX", path>>
ErrorXlsxEntry(path) == <<"ERROR reading XLSX", path>>
MappedEntry(old, new) == <<"Mapped", old, new>>
PopulationEntry == <<"Set 'Population' from", "VADEMOS Forecasted Value">>
MissingEntry(col) == <<"Missing column", col, "Defaulted">>

\* data_load.py lines 15-23; a file is [readable, text]
read_markdown(file, path, log) ==
    IF file.readable
    THEN [raised |-> FALSE, result |-> <<file.text>>, audit_log |-> Append(log, ReadMarkdownEntry(path))]
    ELSE [raised |-> TRUE, result |-> <<>>, audit_log |-> Append(log, ErrorMarkdownEntry(path))]

\* data_load.py line 33
read_required == <<"Country", "Specie", "VADEMOS Forecasted Value", "Political_Stability_Index">>

\* data_load.py lines 25-42; a workbook is [readable, header, rows], its first sheet
read_xlsx_mut(file, path, log) ==
    IF file.readable
    THEN [raised |-> FALSE,
          result |-> <<Frame(those_in(file.header, Names(read_required)),
                             [c \in Names(file.header) \cap Names(read_required) |->
                                 [r \in DOMAIN file.rows |->
                                     file.rows[r][CHOOSE i \in DOMAIN file.header :
                                                      file.header[i] = c]]],
                             Len(file.rows))>>,
          audit_log |-> Append(log, ReadXlsxEntry(path))]
    ELSE [raised |-> FALSE, result |-> <<Frame(<<>>, <<>>, 0)>>,
          audit_log |-> Append(log, ErrorXlsxEntry(path))]

read_xlsx(file, path, log) ==
    IF file.readable
    THEN [raised |-> FALSE,
          result |-> <<Frame(those_in(file.header, Names(read_required)),
                             [c \in Names(file.header) \cap Names(read_required) |->
                                 [r \in DOMAIN file.rows |->
                                     file.rows[r][CHOOSE i \in DOMAIN file.header :
                                                      file.header[i] = c]]],
                             Len(file.rows))>>,
          audit_log |-> Append(log, ReadXlsxEntry(path))]
    ELSE [raised |-> TRUE, result |-> <<>>, audit_log |-> Append(log, ErrorXlsxEntry(path))]

\* data_load.py lines 45-48 and 66-69
map_specie_mut(v) ==
    IF has_column(v.df, "Specie")
    THEN [df |-> rename(v.df, "Specie", "Species"),
          audit_log |-> Append(v.audit_log, MappedEntry("Specie", "Species"))]
    ELSE v

map_specie(v) ==
    IF has_column(v.df, "Specie") /\ ~has_column(v.df, "Species")
    THEN [df |-> rename(v.df, "Specie", "Species"),
          audit_log |-> Append(v.audit_log, MappedEntry("Specie", "Species"))]
    ELSE v

\* data_load.py lines 49-52
set_population(v) ==
    IF has_column(v.df, "VADEMOS Forecasted Value")
    THEN [df |-> set_column(v.df, "Population", fillna0(v.df.data["VADEMOS Forecasted Value"])),
          audit_log |-> Append(v.audit_log, PopulationEntry)]
    ELSE v

\* data_load.py line 54
national_required_cols == <<"Country", "Species", "Population", "Political_Stability_Index">>

\* data_load.py lines 53-59 (no input frame has duplicated or unnamed columns)
keep_required(v) ==
    [df |-> select(v.df, those_in(national_required_cols, Names(v.df.columns))),
     audit_log |-> v.audit_log]

\* data_load.py lines 44-59
validate_national(df, log) == keep_required(set_population(map_specie([df |-> df, audit_log |-> log])))

\* data_load.py lines 62-65
map_adm1(v) ==
    IF has_column(v.df, "ADM1_Name") /\ ~has_column(v.df, "ADM1")
    THEN [df |-> rename(v.df, "ADM1_Name", "ADM1"),
          audit_log |-> Append(v.audit_log, MappedEntry("ADM1_Name", "ADM1"))]
    ELSE v

\* data_load.py line 71
subregions_required_cols ==
    <<"Country", "ADM1", "Species", "Density", "VADEMOS National Forecasted Value">>

\* data_load.py lines 74-79
default_of(col) ==
    IF col = "Density" THEN Number(One)
    ELSE IF col = "VADEMOS National Forecasted Value" THEN Number(Zero)
    ELSE Text("Unknown")

\* data_load.py lines 72-81
RECURSIVE default_loop(_, _)
default_loop(cols, v) ==
    IF cols = <<>> THEN v
    ELSE IF has_column(v.df, Head(cols)) THEN default_loop(Tail(cols), v)
    ELSE default_loop(Tail(cols),
                      [df |-> set_value(v.df, Head(cols), default_of(Head(cols))),
                       audit_log |-> Append(v.audit_log, MissingEntry(Head(cols)))])

\* data_load.py line 83
standardize(v) ==
    [df |-> select(v.df, those_in(subregions_required_cols, Names(v.df.columns))
                         \o those_not_in(v.df.columns, Names(subregions_required_cols))),
     audit_log |-> v.audit_log]

\* data_load.py lines 61-84
validate_subregions(df, log) ==
    standardize(default_loop(subregions_required_cols,
                             map_specie(map_adm1([df |-> df, audit_log |-> log]))))

\* data_load.py lines 95-98: the four documents, read in this order
DocKeys == <<"methodology", "regional_costs", "country_case_costs", "data_sources">>

add_doc(st, key, r) ==
    [st EXCEPT !.raised = r.raised,
               !.docs = IF r.raised THEN @ ELSE @ @@ (key :> r.result[1]),
               !.audit_log = r.audit_log]

RECURSIVE read_docs(_, _, _)
read_docs(keys, files, st) ==
    IF keys = <<>> \/ st.raised THEN st
    ELSE read_docs(Tail(keys), files,
                   add_doc(st, Head(keys),
                           read_markdown(files.docs[Head(keys)], Head(keys), st.audit_log)))

\* data_load.py line 100
national_validated(st, v) == [st EXCEPT !.national_df = <<v.df>>, !.audit_log = v.audit_log]

national_read(st, r) ==
    IF r.raised THEN [st EXCEPT !.raised = TRUE, !.audit_log = r.audit_log]
    ELSE national_validated(st, validate_national(r.result[1], r.audit_log))

load_national(files, st) ==
    IF st.raised THEN st
    ELSE national_read(st, read_xlsx(files.national, "national", st.audit_log))

\* data_load.py line 101
subregions_validated(st, v) == [st EXCEPT !.subregions_df = <<v.df>>, !.audit_log = v.audit_log]

subregions_read(st, r) ==
    IF r.raised THEN [st EXCEPT !.raised = TRUE, !.audit_log = r.audit_log]
    ELSE subregions_validated(st, validate_subregions(r.result[1], r.audit_log))

load_subregions(files, st) ==
    IF st.raised THEN st
    ELSE subregions_read(st, read_xlsx(files.subregions, "subregions", st.audit_log))

\* data_load.py lines 106-111: the dict returned, nothing when an exception left main
returned(st) ==
    [raised |-> st.raised,
     result |-> IF st.raised THEN <<>>
                ELSE <<[docs |-> st.docs, national_df |-> st.national_df[1],
                        subregions_df |-> st.subregions_df[1], audit_log |-> st.audit_log]>>,
     audit_log |-> st.audit_log]

\* data_load.py lines 85-111
main_mut(files, log) ==
    returned(load_subregions(files, load_national(files,
        read_docs(DocKeys, files,
                  [raised |-> FALSE, docs |-> <<>>, national_df |-> <<>>,
                   subregions_df |-> <<>>, audit_log |-> <<>>]))))

main(files, log) ==
    returned(load_subregions(files, load_national(files,
        read_docs(DocKeys, files,
                  [raised |-> FALSE, docs |-> <<>>, national_df |-> <<>>,
                   subregions_df |-> <<>>, audit_log |-> log]))))

\* streamlit_app.py lines 223-233: row["Country"], row["Species"], row["Population"] and
\* row["Political_Stability_Index"] are read for every row; a missing key raises KeyError
first_year_loop_raises(df) ==
    df.nrows > 0 /\ ~(Names(national_required_cols) \subseteq Names(df.columns))

(* Inputs of data_load *)

\* entries already in the log when a call starts
MaxLogBefore == 1

CellOf(col) ==
    CASE col = "Country" -> Text("Kenya")
      [] col = "Specie" -> Text("Goats")
      [] col = "Species" -> Text("Sheep")
      [] col = "ADM1_Name" -> Text("Rift Valley")
      [] col = "ADM1" -> Text("Nairobi")
      [] col = "Density" -> Number(Frac(1, 2))
      [] col = "VADEMOS Forecasted Value" -> Number(RInt(100))
      [] col = "VADEMOS National Forecasted Value" -> Number(RInt(1000))
      [] col = "Political_Stability_Index" -> Number(Frac(1, 2))
      [] OTHER -> Text("note")

NationalColumns ==
    <<"Country", "Specie", "Species", "VADEMOS Forecasted Value", "Political_Stability_Index">>

SubregionColumns ==
    <<"Country", "ADM1_Name", "ADM1", "Specie", "Species", "Density",
      "VADEMOS National Forecasted Value">>

FrameOf(order, names, vademos) ==
    Frame(those_in(order, names),
          [c \in names |-> <<IF c = "VADEMOS Forecasted Value" THEN vademos ELSE CellOf(c)>>],
          1)

NationalFrames ==
    {FrameOf(NationalColumns, names, vademos) :
        names \in SUBSET Names(NationalColumns), vademos \in {Number(RInt(100)), Missing}}

SubregionFrames ==
    {FrameOf(SubregionColumns, names, Missing) : names \in SUBSET Names(SubregionColumns)}

Headers ==
    {<<"Country", "Specie", "VADEMOS Forecasted Value", "Political_Stability_Index">>,
     <<"Country", "Specie", "Notes", "VADEMOS Forecasted Value">>,
     <<"Country", "Species", "VADEMOS Forecasted Value", "Political_Stability_Index">>,
     <<"Notes">>}

Unreadable == [readable |-> FALSE, header |-> <<>>, rows |-> <<>>]

Workbooks ==
    {Unreadable}
    \cup {[readable |-> TRUE, header |-> h,
           rows |-> IF filled THEN <<[i \in DOMAIN h |-> CellOf(h[i])]>> ELSE <<>>] :
             h \in Headers, filled \in BOOLEAN}

Documents == {[readable |-> TRUE, text |-> "text"], [readable |-> FALSE, text |-> ""]}

FileSystems ==
    {[docs |-> [k \in Names(DocKeys) |-> [readable |-> k # missing,
                                           text |-> IF k # missing THEN "text" ELSE ""]],
      national |-> n, subregions |-> sr] :
        missing \in Names(DocKeys) \cup {"none"},
        n \in {w \in Workbooks : w.rows # <<>> \/ ~w.readable},
        sr \in {w \in Workbooks : w.rows # <<>> \/ ~w.readable}}

NoLoad == [fn |-> "none"]

InitLoad ==
    /\ audit_log = <<>>
    /\ call = NoLoad
    /\ national_df = <<>>
    /\ config = DefaultConfig
    /\ country_stats = EmptyDict
    /\ totals = aggregate_totals(EmptyDict)
    /\ view = NoView
    /\ subregions_df = <<>>
    /\ session_state = DefaultSessionState

\* the outcome r of a call becomes the last call; the log is the module's list
Recorded(fn, input, r) ==
    /\ call' = [fn |-> fn, input |-> input, log_before |-> audit_log,
                raised |-> r.raised, result |-> r.result]
    /\ audit_log' = r.audit_log
    /\ UNCHANGED <<national_df, config, country_stats, totals, view, subregions_df,
                   session_state>>

Called(fn, input, r) ==
    /\ Len(audit_log) <= MaxLogBefore
    /\ Recorded(fn, input, r)

validated(v) == [raised |-> FALSE, result |-> <<v.df>>, audit_log |-> v.audit_log]

CallReadMarkdown ==
    \E file \in Documents, path \in Names(DocKeys) :
        Called("read_markdown", <<file>>, read_markdown(file, path, audit_log))

CallReadXlsx ==
    \E file \in Workbooks, path \in {"national", "subregions"} :
        Called("read_xlsx", <<file>>, read_xlsx(file, path, audit_log))

CallValidateNational ==
    \E df \in NationalFrames :
        Called("validate_national", <<df>>, validated(validate_national(df, audit_log)))

CallValidateSubregions ==
    \E df \in SubregionFrames :
        Called("validate_subregions", <<df>>, validated(validate_subregions(df, audit_log)))

CallMain ==
    \E files \in FileSystems : Called("main", <<files>>, main(files, audit_log))

\* main() called once more on the same files: the module, and its audit_log, stay loaded
CallMainAgain ==
    /\ call.fn = "main"
    /\ Len(call.log_before) <= MaxLogBefore
    /\ Recorded("main", call.input, main(call.input[1], audit_log))

NextLoad ==
    \/ CallReadMarkdown
    \/ CallReadXlsx
    \/ CallValidateNational
    \/ CallValidateSubregions
    \/ CallMain
    \/ CallMainAgain

SpecLoad == InitLoad /\ [][NextLoad]_vars

-----------------------------------------------------------------------------
(* Properties of the formulas (checked under SpecCalc) *)

\* r = a * b and r = a * b * c as values, by cross-multiplication
IsProduct2(r, a, b) == r.d > 0 /\ r.n * (a.d * b.d) = (a.n * b.n) * r.d
IsProduct3(r, a, b, c) == r.d > 0 /\ r.n * (a.d * b.d * c.d) = (a.n * b.n * c.n) * r.d
AtLeast(x, y) == x.n * y.d >= y.n * x.d
Below(x, y) == x.n * y.d < y.n * x.d

Finished(fn) == call.fn = fn /\ call.done

\* C1: for every population >= 0 and coverage in [0,1], vaccinated_initial returns
\* exactly population * coverage.
C1_VaccinatedIsPopulationTimesCoverage ==
    Finished("vaccinated_initial") =>
        IsProduct2(call.result, call.args[1], call.args[2])

C1_Witness ==
    /\ Finished("vaccinated_initial")
    /\ call.args = <<RInt(1000), Frac(8, 10)>>
    /\ call.result = RInt(800)

C3_CostIsProductOfFactors ==
    /\ Finished("cost_before_adj") =>
           IsProduct2(call.result, call.args[1], call.args[2])
    /\ Finished("total_cost") =>
           IsProduct3(call.result, call.args[1], call.args[2], call.args[3])

C3_Witness ==
    /\ Finished("total_cost")
    /\ call.args = <<RInt(176), Frac(15, 10), Frac(12, 10)>>
    /\ call.result = Frac(3168, 10)

\* C4: with low <= high the political multiplier is m0 for psi < low, m1 for
\* low <= psi < high and m2 for psi >= high (psi = low selects m1, psi = high selects m2),
\* in calculations.political_multiplier and in streamlit_app.get_political_mult.
C4_StepwisePoliticalMultiplier ==
    (call.fn \in {"political_multiplier", "get_political_mult"} /\ call.done) =>
        LET psi == call.args[1]
            low == call.args[2][1]
            high == call.args[2][2]
            m == call.args[3]
        IN  AtLeast(high, low) =>
                /\ Below(psi, low) => call.result = m[1]
                /\ (AtLeast(psi, low) /\ Below(psi, high)) => call.result = m[2]
                /\ AtLeast(psi, high) => call.result = m[3]

C4_Witness ==
    /\ Finished("political_multiplier")
    /\ call.args = <<Frac(4, 10), DefaultThresholds, DefaultMultipliers>>
    /\ call.result = Frac(15, 10)

\* C6: newborns(s, v, rates) returns v * rates[s] when s is a key of rates and
\* v * 0.5 otherwise.
C6_NewbornsUsesRateOrHalf ==
    Finished("newborns") =>
        LET sp == call.args[1]
            v == call.args[2]
            rates == call.args[3]
        IN  IF sp \in DOMAIN rates
            THEN IsProduct2(call.result, v, rates[sp])
            ELSE call.result.d > 0 /\ call.result.n * (2 * v.d) = v.n * call.result.d

C6_Witness ==
    /\ Finished("newborns")
    /\ call.args = <<Cattle, RInt(800), DefaultNewbornRates>>
    /\ call.result = RInt(400)

-----------------------------------------------------------------------------
(* Properties of the national pipeline (checked under Spec) *)

Computed == view.tab # "none"

\* a and b are the same name up to letter case and spaces
SameLetter(x, y) ==
    x = y \/ \E i \in DOMAIN LowerAlpha : {x, y} = {LowerAlpha[i], UpperAlpha[i]}

RECURSIVE SameIgnoringCaseAndSpaces(_, _)
SameIgnoringCaseAndSpaces(a, b) ==
    IF a # <<>> /\ Head(a) = " " THEN SameIgnoringCaseAndSpaces(Tail(a), b)
    ELSE IF b # <<>> /\ Head(b) = " " THEN SameIgnoringCaseAndSpaces(a, Tail(b))
    ELSE IF a = <<>> \/ b = <<>> THEN a = b
    ELSE SameLetter(Head(a), Head(b)) /\ SameIgnoringCaseAndSpaces(Tail(a), Tail(b))

MatchesExcludedName(country, names) ==
    \E name \in names : SameIgnoringCaseAndSpaces(country, name)

RowsOf(country) == {i \in DOMAIN national_df : national_df[i].Country = country}

\* the newborn rate of the configuration: per species, else 0.5
ClaimNewbornRate(species, cfg) ==
    LET sp == str_capitalize(species)
    IN  IF sp \in {Goat, Goats} THEN Frac(cfg.newborn_goats, 100)
        ELSE IF sp \in {Sheep, Sheeps} THEN Frac(cfg.newborn_sheep, 100)
        ELSE Frac(1, 2)

ClaimVaccinatedY2(row, cfg) ==
    RMul(RMul(RMul(row_pop(row), Frac(cfg.coverage, 100)),
              ClaimNewbornRate(row.Species, cfg)),
         Frac(cfg.second_year_coverage_val, 100))

ClaimDosesY2(row, cfg) == RMul(ClaimVaccinatedY2(row, cfg), Frac(100 + cfg.wastage, 100))

ClaimCostY2(row, cfg) ==
    RMul(RMul(RMul(ClaimDosesY2(row, cfg), get_country_cost(row.Country, cfg)),
              get_political_mult(row_psi(row), cfg)),
         delivery_mult(cfg))

\* C7: for every entity the Year-2 figures cascade from the Year-1 vaccinated count:
\* vaccinated_y2 = population * coverage * newborn_rate(species) * second_year_coverage,
\* doses_y2 = vaccinated_y2 * (1 + wastage), cost_y2 = doses_y2 * cost_per_animal *
\* political_mult * delivery_mult, wasted_y2 = doses_y2 - vaccinated_y2; so each country's
\* Year-2 accumulators are the sums of these figures over its rows.
C7_Year2CascadesFromYear1 ==
    Computed =>
        \A c \in DOMAIN country_stats :
            LET vacc == RSum([i \in RowsOf(c) |-> ClaimVaccinatedY2(national_df[i], config)])
                doses == RSum([i \in RowsOf(c) |-> ClaimDosesY2(national_df[i], config)])
                cost == RSum([i \in RowsOf(c) |-> ClaimCostY2(national_df[i], config)])
            IN  /\ country_stats[c].Y2.doses = doses
                /\ country_stats[c].Y2.cost = cost
                /\ country_stats[c].Y2.wasted = RSub(doses, vacc)

KeptRow(row) == ~MatchesExcludedName(row.Country, ppr_free_countries_overview)

\* C9: an entity whose country name matches an excluded name under case/space-
\* insensitive comparison contributes 0 to every aggregate that is computed: the
\* aggregate totals are those of the table without the excluded countries' rows.
C9_ExcludedContributeZero ==
    Computed =>
        totals = aggregate_totals(
                    compute_country_stats(SelectSeq(national_df, KeptRow), config))

\* the sum of a country-level figure over the countries of a table that map to a region
SumInRegion(stats, region, Lookup(_), Figure(_)) ==
    RSum([c \in {k \in DOMAIN stats : Lookup(k) = region} |-> Figure(stats[c])])

ClaimRegionOf(country) ==
    IF country \in DOMAIN country_region_map THEN country_region_map[country]
    ELSE "West Africa"

CostY1Of(st) == st.Y1.cost
CostY2Of(st) == st.Y2.cost
DosesY1Of(st) == st.Y1.doses
DosesY2Of(st) == st.Y2.doses
WastedY1Of(st) == st.Y1.wasted
WastedY2Of(st) == st.Y2.wasted
VaccinatedY1Of(st) == RAdd(st.Y1.Goat, st.Y1.Sheep)
VaccinatedY2Of(st) == RAdd(st.Y2.Goat, st.Y2.Sheep)

RegionConserves(agg, stats, region) ==
    /\ agg.CostY1 = SumInRegion(stats, region, ClaimRegionOf, CostY1Of)
    /\ agg.CostY2 = SumInRegion(stats, region, ClaimRegionOf, CostY2Of)
    /\ agg.DosesY1 = SumInRegion(stats, region, ClaimRegionOf, DosesY1Of)
    /\ agg.DosesY2 = SumInRegion(stats, region, ClaimRegionOf, DosesY2Of)
    /\ agg.WastedY1 = SumInRegion(stats, region, ClaimRegionOf, WastedY1Of)
    /\ agg.WastedY2 = SumInRegion(stats, region, ClaimRegionOf, WastedY2Of)
    /\ agg.TotalY1 = SumInRegion(stats, region, ClaimRegionOf, VaccinatedY1Of)
    /\ agg.TotalY2 = SumInRegion(stats, region, ClaimRegionOf, VaccinatedY2Of)

\* C10: every region's aggregate (cost, vaccinated, doses, wasted; Year 1 and Year 2)
\* equals the sum of the country-level aggregates of exactly the countries of the
\* breakdown's country table that the region lookup maps to that region, and the
\* regions listed are exactly the regions of those countries.
C10_RegionIsSumOfItsCountries ==
    /\ view.tab = "regions_countries" =>
        /\ DOMAIN view.region_stats =
               {ClaimRegionOf(c) : c \in DOMAIN view.filtered_stats}
        /\ \A r \in DOMAIN view.region_stats :
               /\ RegionConserves(view.region_stats[r].agg, view.filtered_stats, r)
               /\ view.region_stats[r].TotalCampaignCost =
                      RAdd(SumInRegion(view.filtered_stats, r, ClaimRegionOf, CostY1Of),
                           SumInRegion(view.filtered_stats, r, ClaimRegionOf, CostY2Of))
    /\ view.tab = "streamlit_app" =>
        /\ DOMAIN view.region_stats = {ClaimRegionOf(c) : c \in DOMAIN country_stats}
        /\ \A r \in DOMAIN view.region_stats :
               RegionConserves(view.region_stats[r], country_stats, r)

C10_Witness ==
    /\ view.tab = "regions_countries"
    /\ DOMAIN view.filtered_stats = {Mali, NewLesotho}
    /\ view.filtered_stats[Mali].Y1.cost.n > 0
    /\ view.filtered_stats[NewLesotho].Y1.cost.n > 0
    /\ view.region_stats["West Africa"].agg.CostY1 =
           RAdd(view.filtered_stats[Mali].Y1.cost, view.filtered_stats[NewLesotho].Y1.cost)

-----------------------------------------------------------------------------
(* Properties of the Subregions tab (checked under SpecSub) *)

ChannelMultiplier(cfg) ==
    IF cfg.delivery_channel \in DOMAIN cfg.delivery_multipliers
    THEN cfg.delivery_multipliers[cfg.delivery_channel]
    ELSE One

\* C5: for every delivery channel name the delivery multiplier is the one configured
\* for the channel when the mapping has it and 1.0 when it has not, and an unknown
\* channel never raises an error in a calculation path: here the Subregions tab,
\* whenever a stored configuration is used to cost at least one subregion.
C5_UnknownChannelNeverRaises ==
    (/\ view.tab = "subregions"
     /\ session_state.config.present
     /\ view.grouped # <<>>)
        => /\ view.raised = "none"
           /\ view.delivery_mult = <<ChannelMultiplier(session_state.config)>>

TableCountries(df) == {df[i].Country : i \in DOMAIN df}

\* C8: in every place the exclusion filter is applied (continental overview, regions &
\* countries, subregions tab) a country is excluded if and only if its name equals a
\* name of the disease-free set after case-folding and removal of spaces; a name
\* that merely contains an excluded name is kept.
C8_ExcludedIffNormalizedMatch ==
    /\ view.tab = "regions_countries" =>
        \A c \in DOMAIN country_stats :
            /\ c \in view.excluded_countries
                   <=> MatchesExcludedName(c, ppr_free_countries_regions)
            /\ c \in DOMAIN view.filtered_stats <=> c \notin view.excluded_countries
    /\ view.tab = "continental_overview" =>
        \A c \in DOMAIN country_stats :
            /\ c \in view.excluded_countries
                   <=> MatchesExcludedName(c, ppr_free_countries_overview)
            /\ c \in view.included_countries <=> c \notin view.excluded_countries
    /\ view.tab = "subregions" =>
        \A c \in TableCountries(subregions_df) :
            (\A i \in DOMAIN view.available_countries : view.available_countries[i] # c)
                <=> MatchesExcludedName(c, ppr_free_countries_subregions)

-----------------------------------------------------------------------------
(* Properties across the tabs of the national pipeline (checked under Spec) *)

RegionTotal(region_stats, Figure(_)) ==
    RSum([r \in DOMAIN region_stats |-> Figure(region_stats[r].agg)])

AggCostY1(agg) == agg.CostY1
AggCostY2(agg) == agg.CostY2
AggDosesY1(agg) == agg.DosesY1
AggDosesY2(agg) == agg.DosesY2
AggWastedY1(agg) == agg.WastedY1
AggWastedY2(agg) == agg.WastedY2
AggTotalY1(agg) == agg.TotalY1
AggTotalY2(agg) == agg.TotalY2

\* what the Regions & Countries tab shows for the current country_stats
BreakdownOfRun == filter_ppr_free_countries(country_stats)

\* C11: for the same input and configuration the continental overview includes the
\* same countries as the region/country breakdown, and each continental total (Year-1
\* and Year-2 vaccinated, doses, wasted, cost) is the sum of the region totals.
C11_ContinentalIsSumOfRegions ==
    view.tab = "continental_overview" =>
        LET regions == rc_region_stats(BreakdownOfRun.filtered_stats)
        IN  /\ view.included_countries = DOMAIN BreakdownOfRun.filtered_stats
            /\ view.totals.total_animals_y1 = RegionTotal(regions, AggTotalY1)
            /\ view.totals.total_doses_y1 = RegionTotal(regions, AggDosesY1)
            /\ view.totals.total_wasted_y1 = RegionTotal(regions, AggWastedY1)
            /\ view.totals.total_cost_y1 = RegionTotal(regions, AggCostY1)
            /\ view.totals.total_animals_y2 = RegionTotal(regions, AggTotalY2)
            /\ view.totals.total_doses_y2 = RegionTotal(regions, AggDosesY2)
            /\ view.totals.total_wasted_y2 = RegionTotal(regions, AggWastedY2)
            /\ view.totals.total_cost_y2 = RegionTotal(regions, AggCostY2)
ClaimVaccinatedY1(row, cfg) == RMul(row_pop(row), Frac(cfg.coverage, 100))

\* C12: every record of a non-excluded country contributes its vaccinated, doses,
\* wasted and cost figures exactly once to its country aggregate whatever its species
\* value, so the country's vaccinated count is the sum over its records and
\* doses_total - vaccinated_total = wasted_total in both years.
C12_EveryRecordCountedOnce ==
    Computed =>
        \A c \in DOMAIN country_stats :
            ~MatchesExcludedName(c, ppr_free_countries_overview) =>
                LET st == country_stats[c]
                    vaccinated_y1 == RAdd(st.Y1.Goat, st.Y1.Sheep)
                    vaccinated_y2 == RAdd(st.Y2.Goat, st.Y2.Sheep)
                IN  /\ vaccinated_y1 =
                           RSum([i \in RowsOf(c) |-> ClaimVaccinatedY1(national_df[i], config)])
                    /\ RSub(st.Y1.doses, vaccinated_y1) = st.Y1.wasted
                    /\ RSub(st.Y2.doses, vaccinated_y2) = st.Y2.wasted
ClaimDosesY1(row, cfg) == RMul(ClaimVaccinatedY1(row, cfg), Frac(100 + cfg.wastage, 100))

\* the Year-1 cost of a row when its cost per animal is the one of the given region
ClaimCostY1In(region, row, cfg) ==
    RMul(RMul(RMul(ClaimDosesY1(row, cfg), cfg.regional_custom_cost[region]),
              get_political_mult(row_psi(row), cfg)),
         delivery_mult(cfg))

OnlyCountry(c) == [k \in {c} |-> country_stats[k]]

ListedPair(country, subregion) ==
    \E e \in DOMAIN episystems_data :
        /\ country \in DOMAIN episystems_data[e]
        /\ subregion \in episystems_data[e][country]

\* the subregion table with every entity of an unlisted pair taken out
RECURSIVE WithoutUnlisted(_)
WithoutUnlisted(df) ==
    IF df = <<>> THEN <<>>
    ELSE (IF ListedPair(Head(df).Country, Head(df).Subregion) THEN <<Head(df)>> ELSE <<>>)
         \o WithoutUnlisted(Tail(df))

\* C14: an entity whose (country, subregion) pair is not in the static episystem
\* table contributes nothing to the episystem aggregates and campaign totals (they
\* equal those of the table without it, no result row and no "Unknown" episystem
\* stands for it), while the country and region aggregates stay those of the
\* national computation.
C14_UnlistedPairContributesNothing ==
    view.tab = "episystems" =>
        /\ \A i \in DOMAIN view.results_table :
              ListedPair(view.results_table[i].Country, view.results_table[i].Subregion)
        /\ "Unknown" \notin DOMAIN view.episystem_agg
        /\ LET without == display_scenario_results(WithoutUnlisted(subregions_df),
                                                   session_state.scenario_params)
           IN  /\ view.campaign = without.campaign
               /\ view.episystem_agg = without.episystem_agg
        /\ country_stats = compute_country_stats(national_df, config)
        /\ totals = aggregate_totals(country_stats)
        /\ app_region_stats(country_stats) = app_region_stats(compute_country_stats(national_df, config))

C14_Witness ==
    /\ view.tab = "episystems"
    /\ national_df # <<>>
    /\ view.campaign["Cost Y1"] # Zero
    /\ \E i \in DOMAIN subregions_df :
          /\ ~ListedPair(subregions_df[i].Country, subregions_df[i].Subregion)
          /\ subregions_df[i].Specie = Goats
          /\ is_number(subregions_df[i].Coverage100)


\* every reordering of the rows of a table
RowOrders(s) ==
    {[i \in DOMAIN s |-> s[p[i]]] :
        p \in {f \in [DOMAIN s -> DOMAIN s] : \A i, j \in DOMAIN s : f[i] = f[j] => i = j}}

\* C15: aggregation is a commutative reduction: whatever the order of the input
\* rows, the country aggregates, the region aggregates and the continental
\* aggregates are the same.
C15_RowOrderDoesNotMatter ==
    Computed =>
        \A p \in RowOrders(national_df) :
            /\ country_stats = compute_country_stats(p, config)
            /\ totals = aggregate_totals(compute_country_stats(p, config))
            /\ view.tab = "streamlit_app" =>
                   view.region_stats = app_region_stats(compute_country_stats(p, config))
            /\ view.tab = "regions_countries" =>
                   view.region_stats =
                       rc_region_stats(filter_ppr_free_countries(
                           compute_country_stats(p, config)).filtered_stats)
            /\ view.tab = "continental_overview" =>
                   view.totals =
                       overview_totals(overview_filter(
                           compute_country_stats(p, config)).filtered_stats)

C15_Witness ==
    /\ view.tab = "regions_countries"
    /\ Len(national_df) = 2
    /\ national_df[1] # national_df[2]
    /\ national_df[1].Country = Kenya
    /\ national_df[2].Country = Kenya
    /\ country_stats[Kenya].Y1.doses # Zero

\* C16: recomputation is idempotent: a run of the script that follows a run with
\* the same table and the same sidebar values yields the same per-country figures,
\* the same totals and the same region aggregates; nothing of the previous run is
\* carried over into the next.
C16_RecomputationIsIdempotent ==
    [][(Computed /\ view'.tab = "streamlit_app" /\ config' = config /\ national_df' = national_df)
          => /\ country_stats' = country_stats
             /\ totals' = totals
             /\ view'.region_stats = app_region_stats(country_stats)
             /\ view.tab = "streamlit_app" => view' = view]_vars

C16_Witness ==
    /\ view.tab = "streamlit_app"
    /\ Len(national_df) = 2
    /\ Kenya \in DOMAIN country_stats
    /\ country_stats[Kenya].Y1.cost # Zero
    /\ country_stats[Kenya].Y2.cost # Zero
    /\ totals.total_cost_y1 # Zero

\* the entity kept for a species of a subregion holds a population that is text
FailingEntity(data) ==
    data # <<>> /\ notnull(data[1].Coverage100) /\ ~is_number(data[1].Coverage100)

\* C17: a failure while computing one entity (a non-numeric population) is caught
\* at that entity: the run does not abort, the entity contributes zero, the
\* failure is reported to the user rather than silently swallowed, and the
\* remaining entities are still computed.
C17_EntityFailureIsCaughtAndReported ==
    (/\ view.tab = "subregions"
     /\ session_state.config.present
     /\ session_state.config.delivery_channel \in DOMAIN session_state.config.delivery_multipliers
     /\ \E i \in DOMAIN view.grouped :
           FailingEntity(view.grouped[i].goats_data) \/ FailingEntity(view.grouped[i].sheep_data))
    => /\ view.raised = "none"
       /\ view.messages # <<>>
       /\ \A i \in DOMAIN view.grouped, k \in DOMAIN view.subregion_table :
             view.subregion_table[k].Subregion = view.grouped[i].Subregion =>
                /\ FailingEntity(view.grouped[i].goats_data) =>
                      view.subregion_table[k].GoatsY1 = Zero
                /\ FailingEntity(view.grouped[i].sheep_data) =>
                      view.subregion_table[k].SheepY1 = Zero
       /\ \A i \in DOMAIN view.grouped :
             (view.grouped[i].goats_data # <<>> /\ is_number(view.grouped[i].goats_data[1].Coverage100)
                 /\ session_state.config.coverage > 0) =>
                \E k \in DOMAIN view.subregion_table :
                    /\ view.subregion_table[k].Subregion = view.grouped[i].Subregion
                    /\ view.subregion_table[k].GoatsY1 # Zero

\* the entries the last call of data_load appended to the audit log
Appended == SubSeq(audit_log, Len(call.log_before) + 1, Len(audit_log))

\* how many of them record the substitution of old by new
Substitutions(old, new) ==
    Cardinality({i \in DOMAIN Appended : Appended[i] = <<"Mapped", old, new>>})

\* C18: validate_national and validate_subregions rename a column "Specie" to
\* "Species" when no "Species" column exists and append exactly one audit-log entry
\* recording it; when "Species" exists nothing is renamed and no such entry is
\* appended.
C18_SpecieRenamedAndLoggedOnce ==
    call.fn \in {"validate_national", "validate_subregions"} =>
        LET df == call.input[1]
            out == call.result[1]
        IN  /\ ~call.raised
            /\ SubSeq(audit_log, 1, Len(call.log_before)) = call.log_before
            /\ ("Specie" \in Names(df.columns) /\ "Species" \notin Names(df.columns)) =>
                  /\ "Species" \in Names(out.columns)
                  /\ "Specie" \notin Names(out.columns)
                  /\ out.data["Species"] = df.data["Specie"]
                  /\ Substitutions("Specie", "Species") = 1
            /\ "Species" \in Names(df.columns) =>
                  /\ Substitutions("Specie", "Species") = 0
                  /\ out.data["Species"] = df.data["Species"]
            /\ "Specie" \notin Names(df.columns) => Substitutions("Specie", "Species") = 0

C18_Witness ==
    /\ call.fn = "validate_subregions"
    /\ call.log_before # <<>>
    /\ "Specie" \in Names(call.input[1].columns)
    /\ "Species" \notin Names(call.input[1].columns)
    /\ "Species" \in Names(call.result[1].columns)

\* the documented default of a required column
DocumentedDefault(col) ==
    IF col = "Political_Stability_Index" THEN Number(Frac(3, 10))
    ELSE IF col = "Density" THEN Number(One)
    ELSE Text("Unknown")

\* the required column col, absent from the source table df, was synthesized in out
\* with its documented default and one audit-log entry
Synthesized(df, out, col) ==
    /\ col \in Names(out.columns)
    /\ col \in {"Political_Stability_Index", "Density", "Country", "Species", "ADM1"} =>
          \A i \in DOMAIN out.data[col] : out.data[col][i] = DocumentedDefault(col)
    /\ Cardinality({i \in DOMAIN Appended :
                       Len(Appended[i]) > 1 /\ Appended[i][1] = "Missing column"
                       /\ Appended[i][2] = col}) = 1

\* the required column col is absent from the source table, aliases included
Absent(df, col) ==
    /\ col \notin Names(df.columns)
    /\ col = "Species" => "Specie" \notin Names(df.columns)
    /\ col = "ADM1" => "ADM1_Name" \notin Names(df.columns)
    /\ col = "Population" => "VADEMOS Forecasted Value" \notin Names(df.columns)

\* C19: every required column absent from the source is synthesized with its
\* documented default (political stability index 0.3, density 1.0, text "Unknown")
\* with one audit-log entry per substituted column, and neither the normalization
\* nor the cost computation that follows raises because of the missing column.
C19_MissingRequiredColumnsAreDefaulted ==
    /\ call.fn = "validate_national" =>
          /\ ~call.raised
          /\ \A col \in Names(national_required_cols) :
                Absent(call.input[1], col) => Synthesized(call.input[1], call.result[1], col)
          /\ ~first_year_loop_raises(call.result[1])
    /\ call.fn = "validate_subregions" =>
          /\ ~call.raised
          /\ \A col \in Names(subregions_required_cols) :
                Absent(call.input[1], col) => Synthesized(call.input[1], call.result[1], col)

\* the last entry appended is an "ERROR reading ..." entry
EndsWithError ==
    /\ Appended # <<>>
    /\ Appended[Len(Appended)][1] \in {"ERROR reading Markdown", "ERROR reading XLSX"}

\* some source file of the file system cannot be read
SomeUnreadable(files) ==
    \/ \E k \in DOMAIN files.docs : ~files.docs[k].readable
    \/ ~files.national.readable
    \/ ~files.subregions.readable

\* C20: when a source file cannot be read, read_markdown and read_xlsx append an
\* "ERROR reading ..." entry to the audit log and re-raise, so main() returns no
\* partial result; a readable file raises nothing, whatever columns it lacks.
C20_UnreadableFileIsLoggedAndRaised ==
    /\ call.fn \in {"read_markdown", "read_xlsx"} =>
          IF call.input[1].readable
          THEN ~call.raised /\ call.result # <<>> /\ ~EndsWithError
          ELSE /\ call.raised
               /\ call.result = <<>>
               /\ Len(Appended) = 1
               /\ EndsWithError
    /\ call.fn = "main" =>
          IF SomeUnreadable(call.input[1])
          THEN call.raised /\ call.result = <<>> /\ EndsWithError
          ELSE ~call.raised /\ call.result # <<>> /\ ~EndsWithError

C20_Witness ==
    /\ call.fn = "main"
    /\ call.raised
    /\ \A k \in DOMAIN call.input[1].docs : call.input[1].docs[k].readable
    /\ call.input[1].national.readable
    /\ "Political_Stability_Index" \notin Names(call.input[1].national.header)
    /\ ~call.input[1].subregions.readable

-----------------------------------------------------------------------------
(* The formulas against the methodology text shown to users *)

\* C21: as the methodology text states, Doses = Vaccinated / (1 - Wastage %): for
\* every vaccinated count and wastage rate in [0,1) the doses figure computed by
\* doses_required equals vaccinated / (1 - wastage).
C21_DosesIsVaccinatedOverOneMinusWastage ==
    (/\ Finished("doses_required")
     /\ AtLeast(call.args[2], Zero)
     /\ Below(call.args[2], One))
    => LET v == call.args[1]
           w == call.args[2]
           r == call.result
       IN  /\ r.d > 0
           /\ r.n * (w.d - w.n) * v.d = v.n * w.d * r.d

\* C22: in every calculation path the political multiplier is non-increasing in the
\* stability index: for two indices a < b the multiplier applied for a is at least
\* the multiplier applied for b. The paths are political_multiplier with its default
\* thresholds and multipliers (the episystems tab) and get_political_mult with a
\* sidebar whose thresholds and risk multipliers are ordered.
C22_MultiplierNonIncreasingInIndex ==
    /\ (/\ Finished("political_multiplier")
        /\ call.args[2] = DefaultThresholds
        /\ call.args[3] = DefaultMultipliers)
       => \A b \in CalcPsi :
             Below(call.args[1], b) =>
                AtLeast(call.result, political_multiplier(b, DefaultThresholds, DefaultMultipliers))
    /\ (/\ Finished("get_political_mult")
        /\ AtLeast(config.thresh_high, config.thresh_low)
        /\ AtLeast(config.mult_high_risk, config.mult_moderate_risk)
        /\ AtLeast(config.mult_moderate_risk, config.mult_low_risk))
       => \A b \in CalcPsi :
             Below(call.args[1], b) => AtLeast(call.result, get_political_mult(b, config))

-----------------------------------------------------------------------------
\* C23: the Scenario Builder's result for the selected records is the same whatever another
\* view has or has not written into the shared session state: it does not depend on
\* scenario_params, which only the Episystems tab stores
C23_ScenarioBuilderIgnoresOtherViews ==
    view.tab = "scenario_builder"
    => \A written \in {NoScenarioParams} \cup ScenarioParamChoices :
          scenario_results(view.from, [session_state EXCEPT !.scenario_params = written]) = view

-----------------------------------------------------------------------------
\* the records of one (country, subregion) pair and species, by position in the input
RecordsOf(rows, pair, specie) ==
    {i \in DOMAIN rows :
        /\ rows[i].Country = pair[1]
        /\ (IF rows[i].Subregion = NaNName THEN "Unknown" ELSE rows[i].Subregion) = pair[2]
        /\ rows[i].Specie = specie}

\* the last of them in input order, if any
LastRecord(rows, pair, specie) ==
    LET found == RecordsOf(rows, pair, specie)
    IN  IF found = {} THEN <<>>
        ELSE <<rows[CHOOSE i \in found : \A j \in found : j <= i]>>

\* the result row of a pair when each species' last record is the one used
RowOfLastRecords(rows, pair, params) ==
    result_row([year \in {1, 2} |-> calculate_costs(LastRecord(rows, pair, Goats), year, params)],
               [year \in {1, 2} |-> calculate_costs(LastRecord(rows, pair, Sheep), year, params)],
               pair)

C24_ScenarioBuilderPart ==
    (view.tab = "scenario_builder" /\ session_state.scenario_params # NoScenarioParams)
    => \A i \in DOMAIN view.results_table :
          view.results_table[i] =
              RowOfLastRecords(view.from,
                               <<view.results_table[i].Country, view.results_table[i].Subregion>>,
                               session_state.scenario_params)

C24_EpisystemsPart ==
    view.tab = "episystems"
    => \A i \in DOMAIN view.results_table :
          view.results_table[i] =
              RowOfLastRecords(subregions_df,
                               <<view.results_table[i].Country, view.results_table[i].Subregion>>,
                               session_state.scenario_params)

\* C24: when the input holds several records of one (country, subregion, species), every
\* view that groups by (country, subregion) uses exactly one of them, the last in input order
C24_LastDuplicateRecordWins == C24_ScenarioBuilderPart /\ C24_EpisystemsPart

-----------------------------------------------------------------------------
\* the sidebar configuration of the national run that holds the same scenario values as
\* the parameters a subnational view computes with
SameConfiguration(params) ==
    [DefaultConfig EXCEPT
        !.coverage = (params.coverage_rate.n * 100) \div params.coverage_rate.d,
        !.wastage = (params.wastage_rate.n * 100) \div params.wastage_rate.d,
        !.delivery_channel = params.delivery_channel,
        !.regional_custom_cost = [r \in DOMAIN DefaultRegionalCost |-> params.cost_per_animal]]

\* the record of an entity as a row of the national table, with the scenario's index
NationalEntity(record, params) ==
    [Country |-> record.Country, Species |-> record.Specie,
     Population |-> record.Coverage100, Political_Stability_Index |-> params.psi]

\* the figures of one year that the national loop computes for the used Goats and Sheep
\* records of a pair
NationalChain(records, year, params) ==
    LET figures == [i \in DOMAIN records |->
                       IF year = 1
                       THEN EntityY1(NationalEntity(records[i], params),
                                     SameConfiguration(params))
                       ELSE EntityY2(NationalEntity(records[i], params),
                                     SameConfiguration(params))]
    IN  [vaccinated |-> RSum([i \in DOMAIN records |-> figures[i].vaccinated]),
         doses |-> RSum([i \in DOMAIN records |-> figures[i].doses]),
         wasted |-> RSum([i \in DOMAIN records |-> figures[i].wasted]),
         cost |-> RSum([i \in DOMAIN records |-> figures[i].cost])]

\* the Goats and Sheep records a subnational view uses for one result row
UsedRecords(row) ==
    IF view.tab = "episystems"
    THEN first_match(episystem_filter(subregions_df), <<row.Country, row.Subregion>>, Goats)
         \o first_match(episystem_filter(subregions_df), <<row.Country, row.Subregion>>, Sheep)
    ELSE grouped_data(view.from, <<row.Country, row.Subregion>>, Goats)
         \o grouped_data(view.from, <<row.Country, row.Subregion>>, Sheep)

\* C25: every view computes the same chain of formulas: for the same entity and the same
\* scenario configuration, the vaccinated, doses, wasted and cost figures of both years in
\* the episystems tab and the scenario builder equal those of the national loop
C25_ViewsComputeTheSameChain ==
    (view.tab \in {"episystems", "scenario_builder"}
     /\ session_state.scenario_params # NoScenarioParams)
    => \A i \in DOMAIN view.results_table :
          LET row == view.results_table[i]
              records == UsedRecords(row)
              y1 == NationalChain(records, 1, session_state.scenario_params)
              y2 == NationalChain(records, 2, session_state.scenario_params)
          IN  (\A k \in DOMAIN records : is_number(records[k].Coverage100))
              => /\ row.fig["Total Y1"] = y1.vaccinated
                 /\ row.fig["Doses Y1"] = y1.doses
                 /\ row.fig["Wasted Y1"] = y1.wasted
                 /\ row.fig["Cost Y1"] = y1.cost
                 /\ row.fig["Total Y2"] = y2.vaccinated
                 /\ row.fig["Doses Y2"] = y2.doses
                 /\ row.fig["Wasted Y2"] = y2.wasted
                 /\ row.fig["Cost Y2"] = y2.cost

-----------------------------------------------------------------------------
OtherSpecies(row) ==
    str_capitalize(row.Species) \notin {Goat, Goats, Sheep, Sheeps}

\* Year-2 doses of a row whose newborn rate is 0.5
DosesY2AtHalf(row, cfg) ==
    RMul(RMul(RMul(RMul(row_pop(row), Frac(cfg.coverage, 100)), Frac(1, 2)),
              Frac(cfg.second_year_coverage_val, 100)),
         Frac(100 + cfg.wastage, 100))

\* C26: in the national Year-2 computation a record whose species is neither a goat nor a
\* sheep name is computed with a newborn rate of 0.5, and the run completes: a country
\* holding only such records has Year-2 doses equal to the sum of their doses at rate 0.5
C26_UnknownSpeciesUsesHalf ==
    Computed =>
        \A c \in DOMAIN country_stats :
            (\A i \in RowsOf(c) : OtherSpecies(national_df[i]))
            => country_stats[c].Y2.doses =
                   RSum([i \in RowsOf(c) |-> DosesY2AtHalf(national_df[i], config)])

-----------------------------------------------------------------------------
\* C27: for every pair of thresholds the sidebar can hold (low above high included) and
\* every index, an index at or above the high threshold selects the low-risk multiplier
\* and an index below the low threshold selects the high-risk multiplier
C27_StepwiseRuleForAnyThresholds ==
    Finished("get_political_mult")
    => /\ AtLeast(call.args[1], config.thresh_high) => call.result = config.mult_low_risk
       /\ Below(call.args[1], config.thresh_low) => call.result = config.mult_high_risk

-----------------------------------------------------------------------------
\* the filter's result held by a view that has just been rendered
Partitioned(stats, kept, excluded) ==
    /\ DOMAIN kept \cap excluded = {}
    /\ DOMAIN kept \cup excluded = DOMAIN stats
    /\ \A c \in DOMAIN kept : kept[c] = stats[c]

\* C28: rendering the Regions & Countries tab or the Continental Overview filters into a
\* new mapping and a list of excluded names: country_stats keeps every country with its
\* figures, and the included and the excluded countries are disjoint and together exactly
\* the countries of country_stats
C28_FilterLeavesCountryStatsUntouched ==
    [][/\ view'.tab = "regions_countries"
          => /\ country_stats' = country_stats
             /\ Partitioned(country_stats, view'.filtered_stats, view'.excluded_countries)
       /\ view'.tab = "continental_overview"
          => /\ country_stats' = country_stats
             /\ view'.included_countries = DOMAIN view'.filtered_country_stats
             /\ Partitioned(country_stats, view'.filtered_country_stats,
                            view'.excluded_countries)]_vars

C28_Witness ==
    /\ view.tab = "regions_countries"
    /\ view.excluded_countries # {}
    /\ \E c \in DOMAIN view.filtered_stats : view.filtered_stats[c].Y1.doses.n > 0
    /\ DOMAIN country_stats = DOMAIN view.filtered_stats \cup view.excluded_countries

-----------------------------------------------------------------------------
\* the episystems of the table that list a result row's (country, subregion) pair
ListingEpisystems(row) ==
    {e \in DOMAIN episystems_data :
        /\ row.Country \in DOMAIN episystems_data[e]
        /\ row.Subregion \in episystems_data[e][row.Country]}

\* the first of them in table order
FirstListing(row) ==
    EpisystemOrder[CHOOSE i \in DOMAIN EpisystemOrder :
                      /\ EpisystemOrder[i] \in ListingEpisystems(row)
                      /\ \A j \in 1..(i - 1) : EpisystemOrder[j] \notin ListingEpisystems(row)]

\* the sum of one column over the result rows at the given positions, nan cells skipped
ColumnSum(rows, positions, col) ==
    RSum([i \in positions |-> IF is_number(rows[i].fig[col]) THEN rows[i].fig[col] ELSE Zero])

\* C29: in the episystems view every result row is counted in exactly one episystem
\* aggregate, that of the first episystem in table order listing its pair, so for every
\* metric the episystem aggregates sum to the campaign total
C29_EpisystemAggregatesPartitionCampaign ==
    view.tab = "episystems" =>
        LET rows == view.results_table
            counted(e) == {i \in DOMAIN rows : FirstListing(rows[i]) = e}
        IN  /\ DOMAIN view.episystem_agg = {FirstListing(rows[i]) : i \in DOMAIN rows}
            /\ \A e \in DOMAIN view.episystem_agg : \A col \in AggColumns :
                  view.episystem_agg[e][col] = ColumnSum(rows, counted(e), col)
            /\ \A col \in AggColumns \cup {"Total Campaign Cost"} :
                  RSum([e \in DOMAIN view.episystem_agg |-> view.episystem_agg[e][col]])
                      = view.campaign[col]

C29_Witness ==
    /\ view.tab = "episystems"
    /\ \E i \in DOMAIN view.results_table :
          /\ Cardinality(ListingEpisystems(view.results_table[i])) = 2
          /\ view.results_table[i].fig["Cost Y1"].n > 0
    /\ Cardinality(DOMAIN view.episystem_agg) = 2
    /\ view.campaign["Cost Y1"].n > 0

-----------------------------------------------------------------------------
\* the entries one load of the files appends to an empty log
EntriesOfLoad(files) == main(files, <<>>).audit_log

\* C30: the module's audit log is append-only and never reset: no data_load operation
\* removes or reorders an entry, every read (successful or failed) appends exactly one
\* entry, and the log returned by a further main() on the same files holds the entries of
\* every load so far
C30_AuditLogIsAppendOnly ==
    [][/\ Len(audit_log') >= Len(audit_log)
       /\ SubSeq(audit_log', 1, Len(audit_log)) = audit_log
       /\ call'.fn \in {"read_markdown", "read_xlsx"} => Len(audit_log') = Len(audit_log) + 1
       /\ (call.fn = "main" /\ call'.fn = "main" /\ call'.input = call.input)
          => /\ audit_log' = audit_log \o EntriesOfLoad(call.input[1])
             /\ ~call'.raised => call'.result[1].audit_log = audit_log']_vars

C30_Witness ==
    /\ call.fn = "main"
    /\ ~call.raised
    /\ call.log_before = EntriesOfLoad(call.input[1])
    /\ call.result[1].audit_log = call.log_before \o call.log_before
    /\ \E i \in DOMAIN audit_log : audit_log[i][1] = "Mapped"

=============================================================================
